---- MODULE Spec2Model ----
(***************************************************************************)
(* Multisig processor of the indexer: process_transactions walks a batch   *)
(* of transactions, applies every MultisigAccount resource write and every *)
(* 0x1::multisig_account event to five tables (wallets, owners,            *)
(* owners_wallets, multisig_transactions, multisig_voting_transactions).   *)
(*                                                                         *)
(* Tables are sets of rows, so that "one row per key" is something the     *)
(* conflict clauses of the insert statements have to establish.            *)
(* Addresses are sequences of hex digits; Option values are sequences of   *)
(* length 0 (None) or 1 (Some).                                            *)
(***************************************************************************)
EXTENDS Integers, Sequences, FiniteSets, TLC

\* ---------------------------------------------------------------- bounds
\* resource writes and events of one batch
MaxItems == 3
\* resource writes and events of two concurrent batches together
MaxConcItems == 2
\* transactions per batch
MaxTxns == 2
\* readings of the wall clock (Utc::now) that can be told apart
MaxClock == 2
\* statements the store refuses, per instance
MaxFaults == 1
\* calls of get_conn
MaxCalls == 3
\* calls of pool.get() that end in an error
MaxTimeouts == 3
\* calls of update_last_processed_version
MaxUpdates == 3
\* the highest version update_last_processed_version is called with
MaxVersion == 2
\* nesting depth of the type strings given to map_string_to_move_type
MaxTypeDepth == 2
\* elements of the vectors given to parse_nested_move_values
MaxVecLen == 2
\* parameters of a function of the ABI, arguments of a payload
MaxArgs == 2
\* width of a standardized address (64 hex digits in the program)
AddrWidth == 2

\* ------------------------------------------------------ program constants
Pending == 1
Rejected == 2
Success == 3
Failed == 4

Terminal == {Rejected, Success, Failed}

None == <<>>
Some(x) == <<x>>
IsSome(o) == Len(o) = 1
Get(o) == o[1]

\* ------------------------------------------------------------- addresses
RECURSIVE PadLeft(_)
PadLeft(a) == IF Len(a) >= AddrWidth THEN a ELSE PadLeft(<<0>> \o a)

\* utils::util::standardize_address: 0x + hex digits zero-padded to the
\* canonical width
standardize_address(a) == PadLeft(a)

\* the two wallets as the chain prints them: W1 with its leading zero
\* stripped, W2 already of full width
W1 == <<1>>
W2 == <<2, 2>>
\* two owner addresses, likewise
OwnerA == <<10>>
OwnerB == <<11, 11>>
EmptyStr == <<>>

\* ------------------------------------------------------------ JSON values
JsonNull == [k |-> "null", p |-> 0]
JsonEmptyString == [k |-> "string", p |-> 0]
\* the JSON found in the event body under transaction.payload
RawPayload(p) == [k |-> "raw", p |-> p]
\* the payload as process_entry_function returns it (with parsed_args)
DecodedPayload(p) == [k |-> "decoded", p |-> p]
ErrorJson(p) == [k |-> "error", p |-> p]

\* texts handed to serde_json::from_str by update_transaction_status
TextEmpty == [t |-> "empty", p |-> 0]
TextHex(p) == [t |-> "hex", p |-> p]
TextOfJson(j) == [t |-> "json", j |-> j]

\* serde_json::from_str(text).unwrap_or_else(|_| Value::Null)
FromStrOrNull(text) == IF text.t = "json" THEN text.j ELSE JsonNull

\* str::parse::<i32>() on the sequence_number strings of the model
ParseI32(s) ==
    CASE s = "0" -> [ok |-> TRUE, val |-> 0]
      [] s = "1" -> [ok |-> TRUE, val |-> 1]
      [] OTHER -> [ok |-> FALSE, val |-> 0]

\* event_data["sequence_number"].as_str().unwrap_or("0").parse::<i32>()
SequenceNumberOf(ev) ==
    ParseI32(IF ev.json_ok /\ IsSome(ev.sequence_number)
             THEN Get(ev.sequence_number) ELSE "0")

\* ------------------------------------------------------------- the store
EmptyDb ==
    [wallets |-> {}, owners |-> {}, owners_wallets |-> {},
     transactions |-> {}, votes |-> {}]

Range(s) == {s[i] : i \in 1..Len(s)}

\* the conflict target and the SET list of each insert statement
WalletTarget == {"wallet_address"}
OwnerTarget == {"owner_address"}
OwnerWalletTarget == {"wallet_address", "owner_address"}
TransactionTarget == {"sequence_number", "wallet_address"}
VoteTarget == {"transaction_sequence", "wallet_address", "voter_address"}

WalletSet == {"required_signatures", "created_at"}
OwnerSet == {"created_at"}
DoNothing == {}
TransactionSet == {"created_at", "payload", "status"}
VoteSet == {"created_at", "value"}

SameKey(target, r, s) == \A c \in target : r[c] = s[c]

WalletKey(r, s) == SameKey(WalletTarget, r, s)
OwnerKey(r, s) == SameKey(OwnerTarget, r, s)
OwnerWalletKey(r, s) == SameKey(OwnerWalletTarget, r, s)
TransactionKey(r, s) == SameKey(TransactionTarget, r, s)
VoteKey(r, s) == SameKey(VoteTarget, r, s)

\* DO UPDATE SET c = excluded.c for the columns of the SET list
Merge(set, old, new) ==
    [c \in DOMAIN old |-> IF c \in set THEN new[c] ELSE old[c]]

\* INSERT INTO table VALUES rows ON CONFLICT (target) DO ...: a stored row with
\* the key of a new row is merged with it, a new row with a fresh key is added
\* (once, when the statement carries the key twice)
UpsertRows(table, rows, target, set) ==
    LET Hit(r) == {i \in 1..Len(rows) : SameKey(target, r, rows[i])}
        Fresh(i) == /\ \A r \in table : ~SameKey(target, r, rows[i])
                    /\ \A j \in 1..(i - 1) : ~SameKey(target, rows[j], rows[i])
    IN {IF Hit(r) = {} THEN r
        ELSE Merge(set, r, rows[CHOOSE i \in Hit(r) : \A j \in Hit(r) : j <= i])
          : r \in table}
       \cup {rows[i] : i \in {j \in 1..Len(rows) : Fresh(j)}}

\* variant: the wallet insert with ON CONFLICT DO NOTHING
insert_multisig_wallet_query_do_nothing(table, rows) ==
    UpsertRows(table, rows, WalletTarget, DoNothing)

insert_multisig_wallet_query(table, rows) ==
    UpsertRows(table, rows, WalletTarget, WalletSet)

insert_multisig_owner_query(table, rows) ==
    UpsertRows(table, rows, OwnerTarget, OwnerSet)

\* variant: the membership insert re-stamps a row it meets
insert_multisig_owner_wallet_query_restamps(table, rows) ==
    UpsertRows(table, rows, OwnerWalletTarget, {"created_at"})

insert_multisig_owner_wallet_query(table, rows) ==
    UpsertRows(table, rows, OwnerWalletTarget, DoNothing)

insert_transaction_query(table, rows) ==
    UpsertRows(table, rows, TransactionTarget, TransactionSet)

\* variant: the vote insert with ON CONFLICT DO NOTHING
insert_multisig_voting_transaction_query_do_nothing(table, rows) ==
    UpsertRows(table, rows, VoteTarget, DoNothing)

insert_multisig_voting_transaction_query(table, rows) ==
    UpsertRows(table, rows, VoteTarget, VoteSet)

\* variant: the delete without its wallet_address filter
remove_owners_db_all_wallets(table, owners, from_wallet_address) ==
    {r \in table : r.owner_address \notin Range(owners)}

\* DELETE FROM owners_wallets WHERE owner_address IN owners
\*   AND wallet_address = from_wallet_address
remove_owners_db(table, owners, from_wallet_address) ==
    {r \in table : ~(r.owner_address \in Range(owners)
                     /\ r.wallet_address = from_wallet_address)}

\* variant: the changeset with treat_none_as_null, a None field sets NULL
UpdateTransaction_none_as_null(row, u) ==
    [row EXCEPT !.status = u.status,
                !.executor = u.executor,
                !.executed_at = u.executed_at,
                !.payload = IF IsSome(u.payload) THEN Get(u.payload) ELSE JsonNull,
                !.error = u.error]

\* UpdateTransaction changeset: a None field is left out of the SET list
UpdateTransaction(row, u) ==
    [row EXCEPT !.status = u.status,
                !.executor = IF IsSome(u.executor) THEN u.executor ELSE @,
                !.executed_at = IF IsSome(u.executed_at) THEN u.executed_at ELSE @,
                !.payload = IF IsSome(u.payload) THEN Get(u.payload) ELSE @,
                !.error = IF IsSome(u.error) THEN u.error ELSE @]

\* variant: the update without its sequence_number filter
UpdateTarget_any_sequence_number(table, w, n, u) ==
    {IF r.wallet_address = w
     THEN UpdateTransaction(r, u) ELSE r : r \in table}

UpdateTarget(table, w, n, u) ==
    {IF r.wallet_address = w /\ r.sequence_number = n
     THEN UpdateTransaction(r, u) ELSE r : r \in table}

\* variant: the update without the executor column
update_transaction_status_no_executor(table, filter_wallet_address, filter_sequence_number, new_status, new_executor, new_executed_at, transaction_payload) ==
    LET payload_value == FromStrOrNull(transaction_payload)
        update == [status |-> new_status,
                   executor |-> None,
                   executed_at |-> new_executed_at,
                   payload |-> IF payload_value = JsonNull THEN None
                               ELSE Some(payload_value),
                   error |-> None]
    IN UpdateTarget(table, filter_wallet_address, filter_sequence_number, update)

update_transaction_status(table, filter_wallet_address, filter_sequence_number, new_status, new_executor, new_executed_at, transaction_payload) ==
    LET payload_value == FromStrOrNull(transaction_payload)
        update == [status |-> new_status,
                   executor |-> new_executor,
                   executed_at |-> new_executed_at,
                   payload |-> IF payload_value = JsonNull THEN None
                               ELSE Some(payload_value),
                   error |-> None]
    IN UpdateTarget(table, filter_wallet_address, filter_sequence_number, update)

\* variant: the update without the error column
update_failed_transaction_status_no_error(table, filter_wallet_address, filter_sequence_number, new_executor, new_executed_at, error_payload) ==
    LET update == [status |-> Failed,
                   executor |-> new_executor,
                   executed_at |-> new_executed_at,
                   error |-> None,
                   payload |-> None]
    IN UpdateTarget(table, filter_wallet_address, filter_sequence_number, update)

update_failed_transaction_status(table, filter_wallet_address, filter_sequence_number, new_executor, new_executed_at, error_payload) ==
    LET error_value == FromStrOrNull(error_payload)
        update == [status |-> Failed,
                   executor |-> new_executor,
                   executed_at |-> new_executed_at,
                   error |-> Some(error_value),
                   payload |-> None]
    IN UpdateTarget(table, filter_wallet_address, filter_sequence_number, update)

\* variant: the votes table with a foreign key on multisig_transactions, a
\* vote without its Transaction row is not stored
ApplyOp_votes_need_parent(d, o) ==
    CASE o.op = "insert_wallets" ->
           [d EXCEPT !.wallets = insert_multisig_wallet_query(@, o.rows)]
      [] o.op = "insert_owners" ->
           [d EXCEPT !.owners = insert_multisig_owner_query(@, o.rows)]
      [] o.op = "insert_owner_wallets" ->
           [d EXCEPT !.owners_wallets = insert_multisig_owner_wallet_query(@, o.rows)]
      [] o.op = "insert_transactions" ->
           [d EXCEPT !.transactions = insert_transaction_query(@, o.rows)]
      [] o.op = "insert_votes" ->
           [d EXCEPT !.votes =
               IF \A i \in 1..Len(o.rows) : \E r \in d.transactions :
                     /\ r.wallet_address = o.rows[i].wallet_address
                     /\ r.sequence_number = o.rows[i].transaction_sequence
               THEN insert_multisig_voting_transaction_query(@, o.rows) ELSE @]
      [] o.op = "remove_owners" ->
           [d EXCEPT !.owners_wallets = remove_owners_db(@, o.owners, o.wallet)]
      [] o.op = "update_status" ->
           [d EXCEPT !.transactions =
               update_transaction_status(@, o.wallet, o.seq, o.status,
                                         o.executor, o.executed_at, o.text)]
      [] o.op = "update_failed" ->
           [d EXCEPT !.transactions =
               update_failed_transaction_status(@, o.wallet, o.seq,
                                                o.executor, o.executed_at, o.text)]

\* one statement sent to the store
ApplyOp(d, o) ==
    CASE o.op = "insert_wallets" ->
           [d EXCEPT !.wallets = insert_multisig_wallet_query(@, o.rows)]
      [] o.op = "insert_owners" ->
           [d EXCEPT !.owners = insert_multisig_owner_query(@, o.rows)]
      [] o.op = "insert_owner_wallets" ->
           [d EXCEPT !.owners_wallets = insert_multisig_owner_wallet_query(@, o.rows)]
      [] o.op = "insert_transactions" ->
           [d EXCEPT !.transactions = insert_transaction_query(@, o.rows)]
      [] o.op = "insert_votes" ->
           [d EXCEPT !.votes = insert_multisig_voting_transaction_query(@, o.rows)]
      [] o.op = "remove_owners" ->
           [d EXCEPT !.owners_wallets = remove_owners_db(@, o.owners, o.wallet)]
      [] o.op = "update_status" ->
           [d EXCEPT !.transactions =
               update_transaction_status(@, o.wallet, o.seq, o.status,
                                         o.executor, o.executed_at, o.text)]
      [] o.op = "update_failed" ->
           [d EXCEPT !.transactions =
               update_failed_transaction_status(@, o.wallet, o.seq,
                                                o.executor, o.executed_at, o.text)]

\* ------------------------------------------------------------- handlers
\* A handler reads nothing from the store: from its input it builds the
\* statements it sends, in order, and how it returns after the last of them
\* ("ok", "err": an Err that process_transactions propagates with ?,
\* "panic": an unwrap of None).
Plan(ops, res) == [ops |-> ops, res |-> res]

MultisigAccountType == "0x1::multisig_account::MultisigAccount"
CreateTransactionEvent == "0x1::multisig_account::CreateTransactionEvent"
RemoveOwnersEvent == "0x1::multisig_account::RemoveOwnersEvent"
AddOwnersEvent == "0x1::multisig_account::AddOwnersEvent"
TransactionExecutionFailedEvent == "0x1::multisig_account::TransactionExecutionFailedEvent"
ExecuteRejectedTransactionEvent == "0x1::multisig_account::ExecuteRejectedTransactionEvent"
TransactionExecutionSucceededEvent == "0x1::multisig_account::TransactionExecutionSucceededEvent"
VoteEvent == "0x1::multisig_account::VoteEvent"

\* event_data[field] of the parsed body; Value::Null when the body is no JSON
Field(ev, f) == IF ev.json_ok THEN ev[f] ELSE None

\* utils::util::extract_multisig_wallet_data_from_write_resource
extract_multisig_wallet_data_from_write_resource(data) ==
    [required_signatures |-> data.num_signatures_required,
     metadata |-> data.metadata,
     owner_addresses |-> data.owners]

\* variant: every resource write is taken for a MultisigAccount
process_write_resource_any_type(write_resource, utc_now) ==
    LET x == extract_multisig_wallet_data_from_write_resource(write_resource.data)
    IN Plan(<<[op |-> "insert_wallets",
               rows |-> <<[wallet_address |-> write_resource.address,
                           required_signatures |-> x.required_signatures,
                           metadata |-> Some(x.metadata),
                           created_at |-> utc_now]>>]>>,
            "ok")

\* variant: the memberships are written before the owners
process_write_resource_memberships_first(write_resource, utc_now) ==
    IF write_resource.type_str = MultisigAccountType
    THEN LET x == extract_multisig_wallet_data_from_write_resource(write_resource.data)
             multisig_wallet ==
                 [wallet_address |-> write_resource.address,
                  required_signatures |-> x.required_signatures,
                  metadata |-> Some(x.metadata),
                  created_at |-> utc_now]
             owners ==
                 [i \in 1..Len(x.owner_addresses) |->
                     [owner_address |-> x.owner_addresses[i],
                      created_at |-> utc_now]]
             owner_wallets ==
                 [i \in 1..Len(x.owner_addresses) |->
                     [owner_address |-> x.owner_addresses[i],
                      wallet_address |-> write_resource.address,
                      created_at |-> utc_now]]
         IN Plan(<<[op |-> "insert_wallets", rows |-> <<multisig_wallet>>],
                   [op |-> "insert_owner_wallets", rows |-> owner_wallets],
                   [op |-> "insert_owners", rows |-> owners]>>,
                 "ok")
    ELSE Plan(<<>>, "ok")

process_write_resource(write_resource, utc_now) ==
    IF write_resource.type_str = MultisigAccountType
    THEN LET x == extract_multisig_wallet_data_from_write_resource(write_resource.data)
             multisig_wallet ==
                 [wallet_address |-> write_resource.address,
                  required_signatures |-> x.required_signatures,
                  metadata |-> Some(x.metadata),
                  created_at |-> utc_now]
             owners ==
                 [i \in 1..Len(x.owner_addresses) |->
                     [owner_address |-> x.owner_addresses[i],
                      created_at |-> utc_now]]
             owner_wallets ==
                 [i \in 1..Len(x.owner_addresses) |->
                     [owner_address |-> x.owner_addresses[i],
                      wallet_address |-> write_resource.address,
                      created_at |-> utc_now]]
         IN Plan(<<[op |-> "insert_wallets", rows |-> <<multisig_wallet>>],
                   [op |-> "insert_owners", rows |-> owners],
                   [op |-> "insert_owner_wallets", rows |-> owner_wallets]>>,
                 "ok")
    ELSE Plan(<<>>, "ok")

handle_vote_event(event, timestamp) ==
    LET n == SequenceNumberOf(event) IN
    IF ~event.json_ok THEN Plan(<<>>, "err")
    ELSE IF ~n.ok THEN Plan(<<>>, "err")
    ELSE IF ~IsSome(event.owner) \/ ~IsSome(event.approved) THEN Plan(<<>>, "panic")
    ELSE Plan(<<[op |-> "insert_votes",
                 rows |-> <<[wallet_address |-> standardize_address(event.account_address),
                             transaction_sequence |-> n.val,
                             voter_address |-> Get(event.owner),
                             value |-> Get(event.approved),
                             created_at |-> timestamp]>>]>>,
              "ok")

\* variant: the handler stores the row of the transaction when the update
\* would find none
handle_transaction_failed_event_creates(event, timestamp) ==
    LET n == SequenceNumberOf(event)
        error_payload == IF IsSome(event.execution_error)
                         THEN TextOfJson(ErrorJson(Get(event.execution_error)))
                         ELSE TextOfJson(JsonNull)
    IN
    IF ~event.json_ok THEN Plan(<<>>, "err")
    ELSE IF ~n.ok THEN Plan(<<>>, "err")
    ELSE Plan(<<[op |-> "insert_transactions",
                 rows |-> <<[wallet_address |-> standardize_address(event.account_address),
                             sequence_number |-> n.val,
                             initiated_by |-> EmptyStr,
                             payload |-> JsonNull,
                             payload_hash |-> Some(JsonNull),
                             created_at |-> timestamp,
                             status |-> Failed,
                             transaction_hash |-> None,
                             executor |-> event.executor,
                             executed_at |-> Some(timestamp),
                             error |-> None]>>],
                [op |-> "update_failed",
                 wallet |-> standardize_address(event.account_address),
                 seq |-> n.val,
                 executor |-> event.executor,
                 executed_at |-> Some(timestamp),
                 text |-> error_payload]>>,
              "ok")

handle_transaction_failed_event(event, timestamp) ==
    LET n == SequenceNumberOf(event)
        error_payload == IF IsSome(event.execution_error)
                         THEN TextOfJson(ErrorJson(Get(event.execution_error)))
                         ELSE TextOfJson(JsonNull)
    IN
    IF ~event.json_ok THEN Plan(<<>>, "err")
    ELSE IF ~n.ok THEN Plan(<<>>, "err")
    ELSE Plan(<<[op |-> "update_failed",
                 wallet |-> standardize_address(event.account_address),
                 seq |-> n.val,
                 executor |-> event.executor,
                 executed_at |-> Some(timestamp),
                 text |-> error_payload]>>,
              "ok")

\* utils::parse_payload: do the bytes deserialize as MultisigTransactionPayload
parse_payload(bytes) == [ok |-> bytes.kind \in {"ok", "fetch_fail"}]

\* utils::process_entry_function: ABI fetch, argument decoding, parsed_args
process_entry_function(bytes) ==
    IF bytes.kind = "ok" THEN [ok |-> TRUE, val |-> DecodedPayload(bytes.id)]
    ELSE [ok |-> FALSE, val |-> JsonNull]

\* variant: a payload that does not decode is an error of the handler
handle_transaction_status_event_decode_required(event, timestamp) ==
    LET n == SequenceNumberOf(event)
        new_status == IF event.type_str = ExecuteRejectedTransactionEvent
                      THEN Rejected
                      ELSE IF event.type_str = TransactionExecutionSucceededEvent
                      THEN Success ELSE Pending
        transaction_payload ==
            IF event.type_str # TransactionExecutionSucceededEvent THEN TextEmpty
            ELSE IF ~IsSome(event.transaction_payload) THEN TextEmpty
            ELSE LET bytes == Get(event.transaction_payload) IN
                 IF parse_payload(bytes).ok
                 THEN (IF process_entry_function(bytes).ok
                       THEN TextOfJson(process_entry_function(bytes).val)
                       ELSE TextOfJson(JsonEmptyString))
                 ELSE TextHex(bytes.id)
    IN
    IF ~event.json_ok THEN Plan(<<>>, "err")
    ELSE IF ~n.ok THEN Plan(<<>>, "err")
    ELSE IF /\ event.type_str = TransactionExecutionSucceededEvent
            /\ IsSome(event.transaction_payload)
            /\ ~(parse_payload(Get(event.transaction_payload)).ok
                 /\ process_entry_function(Get(event.transaction_payload)).ok)
    THEN Plan(<<>>, "err")
    ELSE Plan(<<[op |-> "update_status",
                 wallet |-> standardize_address(event.account_address),
                 seq |-> n.val,
                 status |-> new_status,
                 executor |-> event.executor,
                 executed_at |-> Some(timestamp),
                 text |-> transaction_payload]>>,
              "ok")

handle_transaction_status_event(event, timestamp) ==
    LET n == SequenceNumberOf(event)
        new_status == IF event.type_str = ExecuteRejectedTransactionEvent
                      THEN Rejected
                      ELSE IF event.type_str = TransactionExecutionSucceededEvent
                      THEN Success ELSE Pending
        transaction_payload ==
            IF event.type_str # TransactionExecutionSucceededEvent THEN TextEmpty
            ELSE IF ~IsSome(event.transaction_payload) THEN TextEmpty
            ELSE LET bytes == Get(event.transaction_payload) IN
                 IF parse_payload(bytes).ok
                 THEN (IF process_entry_function(bytes).ok
                       THEN TextOfJson(process_entry_function(bytes).val)
                       ELSE TextOfJson(JsonEmptyString))
                 ELSE TextHex(bytes.id)
    IN
    IF ~event.json_ok THEN Plan(<<>>, "err")
    ELSE IF ~n.ok THEN Plan(<<>>, "err")
    ELSE Plan(<<[op |-> "update_status",
                 wallet |-> standardize_address(event.account_address),
                 seq |-> n.val,
                 status |-> new_status,
                 executor |-> event.executor,
                 executed_at |-> Some(timestamp),
                 text |-> transaction_payload]>>,
              "ok")

\* utils::decode_event_payload: the bytes of transaction.payload.vec[0]
decode_event_payload(event) ==
    IF IsSome(Field(event, "payload")) /\ Get(event.payload).kind # "novec"
    THEN Some(Get(event.payload)) ELSE None

process_votes(event, timestamp) ==
    LET votes == Field(event, "votes")
        n == SequenceNumberOf(event)
    IN
    IF ~IsSome(votes) THEN Plan(<<>>, "err")
    ELSE IF Get(votes) = <<>> THEN Plan(<<>>, "ok")
    ELSE LET first_vote == Get(votes)[1] IN
         IF ~IsSome(first_vote.key) THEN Plan(<<>>, "panic")
         ELSE IF ~n.ok THEN Plan(<<>>, "err")
         ELSE IF ~IsSome(first_vote.value) THEN Plan(<<>>, "panic")
         ELSE Plan(<<[op |-> "insert_votes",
                      rows |-> <<[wallet_address |-> standardize_address(event.account_address),
                                  transaction_sequence |-> n.val,
                                  voter_address |-> standardize_address(Get(first_vote.key)),
                                  value |-> Get(first_vote.value),
                                  created_at |-> timestamp]>>]>>,
                   "ok")

\* variant: the handler without its call of process_votes
handle_create_transaction_event_no_votes(event, hash, timestamp) ==
    LET n == SequenceNumberOf(event) IN
    IF ~n.ok THEN Plan(<<>>, "err")
    ELSE Plan(<<[op |-> "insert_transactions",
                 rows |-> <<[wallet_address |-> standardize_address(event.account_address),
                             sequence_number |-> n.val,
                             initiated_by |-> IF IsSome(Field(event, "creator"))
                                              THEN Get(event.creator) ELSE EmptyStr,
                             payload |-> JsonNull,
                             payload_hash |-> Some(JsonNull),
                             created_at |-> timestamp,
                             status |-> Pending,
                             transaction_hash |-> Some(hash),
                             executor |-> None,
                             executed_at |-> None,
                             error |-> None]>>]>>,
              "ok")

handle_create_transaction_event(event, hash, timestamp) ==
    LET n == SequenceNumberOf(event)
        raw == IF IsSome(Field(event, "payload"))
               THEN RawPayload(Get(event.payload).id) ELSE JsonNull
        decoded_payload == decode_event_payload(event)
        json_payload ==
            IF IsSome(decoded_payload) /\ parse_payload(Get(decoded_payload)).ok
            THEN process_entry_function(Get(decoded_payload)).val
            ELSE raw
        multisig_transaction ==
            [wallet_address |-> standardize_address(event.account_address),
             sequence_number |-> n.val,
             initiated_by |-> IF IsSome(Field(event, "creator"))
                              THEN Get(event.creator) ELSE EmptyStr,
             payload |-> json_payload,
             payload_hash |-> Some(IF IsSome(Field(event, "payload_hash"))
                                   THEN [k |-> "hash", p |-> Get(event.payload_hash)]
                                   ELSE JsonNull),
             created_at |-> timestamp,
             status |-> Pending,
             transaction_hash |-> Some(hash),
             executor |-> None,
             executed_at |-> None,
             error |-> None]
        votes == process_votes(event, timestamp)
    IN
    IF ~n.ok THEN Plan(<<>>, "err")
    ELSE Plan(<<[op |-> "insert_transactions", rows |-> <<multisig_transaction>>]>>
                 \o votes.ops,
              votes.res)

handle_remove_owners(event) ==
    IF ~event.json_ok THEN Plan(<<>>, "err")
    ELSE IF ~IsSome(event.owners_removed) THEN Plan(<<>>, "ok")
    ELSE Plan(<<[op |-> "remove_owners",
                 owners |-> Get(event.owners_removed),
                 wallet |-> standardize_address(event.account_address)]>>,
              "ok")

handle_add_owners(event, utc_now) ==
    IF ~event.json_ok THEN Plan(<<>>, "err")
    ELSE IF ~IsSome(event.owners_added) THEN Plan(<<>>, "ok")
    ELSE LET added == Get(event.owners_added)
             owner_wallets ==
                 [i \in 1..Len(added) |->
                     [owner_address |-> added[i],
                      wallet_address |-> standardize_address(event.account_address),
                      created_at |-> utc_now]]
         IN Plan(<<[op |-> "insert_owner_wallets", rows |-> owner_wallets]>>, "ok")

HandledEventTypes ==
    {CreateTransactionEvent, RemoveOwnersEvent, AddOwnersEvent,
     TransactionExecutionFailedEvent, ExecuteRejectedTransactionEvent,
     TransactionExecutionSucceededEvent, VoteEvent}

\* the match on event.type_str in process_transactions
Dispatch(event, version, utc_now) ==
    CASE event.type_str = CreateTransactionEvent ->
           handle_create_transaction_event(event, version, version)
      [] event.type_str = RemoveOwnersEvent -> handle_remove_owners(event)
      [] event.type_str = AddOwnersEvent -> handle_add_owners(event, utc_now)
      [] event.type_str = TransactionExecutionFailedEvent ->
           handle_transaction_failed_event(event, version)
      [] event.type_str \in {ExecuteRejectedTransactionEvent,
                             TransactionExecutionSucceededEvent} ->
           handle_transaction_status_event(event, version)
      [] event.type_str = VoteEvent -> handle_vote_event(event, version)
      [] OTHER -> Plan(<<>>, "ok")

\* what the loops of process_transactions call for an entry of the batch
PlanOfEntry(x, version, at) ==
    IF x.e = "change" THEN process_write_resource(x.wr, at)
    ELSE IF x.e = "event" THEN Dispatch(x.ev, version, at)
    ELSE Plan(<<>>, "ok")

\* ---------------------------------------------------------------- inputs
WriteResource(t, a, n, m, os) ==
    [type_str |-> t, address |-> a,
     data |-> [num_signatures_required |-> n, metadata |-> m, owners |-> os]]

Changes ==
    {WriteResource(MultisigAccountType, W2, 2, 1, <<OwnerA, OwnerB>>),
     WriteResource(MultisigAccountType, W2, 1, 2, <<OwnerB>>),
     WriteResource(MultisigAccountType, W1, 1, 1, <<OwnerA>>),
     WriteResource("0x1::account::Account", W1, 0, 0, <<>>)}

Bytes(k, i) == [kind |-> k, id |-> i]

CreateEv(w, ok, s, pl, vs) ==
    [type_str |-> CreateTransactionEvent, account_address |-> w, json_ok |-> ok,
     sequence_number |-> s, creator |-> Some(OwnerA), payload |-> pl,
     payload_hash |-> Some(1), votes |-> vs]

VoteOf(k, v) == [key |-> k, value |-> v]

VoteEv(w, ok, s, o, a) ==
    [type_str |-> VoteEvent, account_address |-> w, json_ok |-> ok,
     sequence_number |-> s, owner |-> o, approved |-> a]

StatusEv(t, w, s, x, pl) ==
    [type_str |-> t, account_address |-> w, json_ok |-> TRUE,
     sequence_number |-> s, executor |-> x, transaction_payload |-> pl]

FailedEv(w, s, x, e) ==
    [type_str |-> TransactionExecutionFailedEvent, account_address |-> w,
     json_ok |-> TRUE, sequence_number |-> s, executor |-> x,
     execution_error |-> e]

AddEv(w, os) ==
    [type_str |-> AddOwnersEvent, account_address |-> w, json_ok |-> TRUE,
     owners_added |-> os]

RemoveEv(w, os) ==
    [type_str |-> RemoveOwnersEvent, account_address |-> w, json_ok |-> TRUE,
     owners_removed |-> os]

Events ==
    {CreateEv(W1, TRUE, Some("0"), Some(Bytes("ok", 1)), Some(<<VoteOf(Some(OwnerA), Some(TRUE))>>)),
     CreateEv(W1, TRUE, Some("1"), Some(Bytes("novec", 1)), Some(<<VoteOf(Some(OwnerA), Some(FALSE))>>)),
     CreateEv(W1, TRUE, None, Some(Bytes("ok", 1)), Some(<<VoteOf(Some(OwnerA), Some(TRUE))>>)),
     CreateEv(W1, FALSE, None, None, None),
     CreateEv(W1, TRUE, Some("0"), Some(Bytes("fetch_fail", 1)), Some(<<VoteOf(Some(OwnerA), Some(TRUE))>>)),
     CreateEv(W1, TRUE, Some("0"), Some(Bytes("unparsable", 1)), Some(<<VoteOf(Some(OwnerA), Some(TRUE))>>)),
     VoteEv(W1, TRUE, Some("0"), Some(OwnerA), Some(TRUE)),
     VoteEv(W1, TRUE, Some("0"), Some(OwnerA), Some(FALSE)),
     VoteEv(W1, TRUE, None, Some(OwnerB), Some(TRUE)),
     VoteEv(W1, TRUE, Some("0"), None, Some(TRUE)),
     StatusEv(TransactionExecutionSucceededEvent, W1, Some("0"), Some(OwnerB), Some(Bytes("ok", 2))),
     StatusEv(TransactionExecutionSucceededEvent, W1, Some("1"), Some(OwnerB), None),
     StatusEv(TransactionExecutionSucceededEvent, W1, Some("0"), Some(OwnerB), Some(Bytes("fetch_fail", 2))),
     StatusEv(TransactionExecutionSucceededEvent, W1, Some("0"), Some(OwnerB), Some(Bytes("unparsable", 2))),
     StatusEv(ExecuteRejectedTransactionEvent, W1, Some("0"), Some(OwnerB), None),
     StatusEv(ExecuteRejectedTransactionEvent, W1, Some("0"), None, None),
     FailedEv(W1, Some("0"), Some(OwnerB), Some(1)),
     AddEv(W1, Some(<<OwnerA>>)),
     AddEv(W2, Some(<<OwnerA>>)),
     RemoveEv(W1, Some(<<OwnerA>>)),
     RemoveEv(W2, Some(<<OwnerA>>)),
     [type_str |-> "0x1::coin::DepositEvent", account_address |-> W1, json_ok |-> TRUE]}

\* a user transaction with its request, a user transaction without request,
\* a transaction of another type, a transaction without txn_data
TxnKinds == {"user", "norequest", "nonuser", "nodata"}

\* what a transaction the loop does not enter can carry: nothing, a
\* MultisigAccount write, an event of a handled type
SkippedItems ==
    {<<>>,
     <<[e |-> "change", wr |-> WriteResource(MultisigAccountType, W1, 1, 1, <<OwnerA>>)]>>,
     <<[e |-> "event", ev |-> AddEv(W1, Some(<<OwnerA>>))]>>}

\* ------------------------------------------------------------- the state
Procs == {1, 2}

VARIABLES
    db,       \* the five tables
    now,      \* the wall clock (Utc::now), in readings
    keep,     \* are the batches kept, to be processed again or compared
    left,     \* resource writes and events the batches can still hold
    log,      \* per instance: its batch as far as it has been read (if kept),
              \* each entry x with the clock reading at of its first handling
    pos,      \* per instance: entries of log consumed in this run
    txn,      \* per instance: the transaction the loop is in
    ntx,      \* per instance: transactions of the batch met in this run
    inEvents, \* per instance: has the loop over the events of txn begun
    handling, \* per instance: the resource write or event being handled
    pending,  \* per instance: statements of the current handler not yet sent
    after,    \* per instance: how the current handler returns after them
    pc,       \* per instance: "idle", "run", "ok", "err", "panic"
    run,      \* per instance: 1, or 2 when the batch is processed again
    failed,   \* per instance: statements the store has refused so far
    took,     \* history (where the batch is not kept): the entry the loops
              \* moved on to last, its instance, the tables at that moment
              \* and whether statements of the handler before it were still
              \* outstanding
    unmatched, \* history (where the batch is not kept): the (wallet_address,
              \* sequence_number) of the updates that met no Transaction row
    pre,      \* history: the tables before the last statement
    last,     \* history: the last statement, its instance and what issued it
    snap,     \* history: the tables when the first run of the batch returned
    processing_result, \* per instance: the summary returned, NoResult before
    conn_pc,  \* per caller of get_conn: "idle", "get" (awaiting pool.get()),
              \* "ok" and "err" (at the arm of the match), "returned"
    conn_ret, \* per caller: what get_conn returned ("conn"), "none" before
    reachable,                      \* does the pool reach the store
    calls,                          \* calls of get_conn so far
    timeouts,                       \* history: errors pool.get() has returned
    GOT_CONNECTION_COUNT,           \* the counters
    UNABLE_TO_GET_CONNECTION_COUNT,
    call,     \* the call of a function of utils under study: its name fn and
              \* its argument arg
    ret,      \* what the call returned, NotReturned before
    fetch_pc, \* where fetch_function_details stands: "idle", "primary" and
              \* "secondary" (awaiting that network's response), "done"
    requests, \* history: the networks reqwest::get has been sent to
    processor_status, \* the processor_status table
    status_pc,   \* per caller of update_last_processed_version: "idle",
                 \* "built" (the row is built, the statement not yet sent)
    status_arg,  \* per caller: the row it has built
    updates,     \* calls of update_last_processed_version so far
    status_pre,  \* history: the table before the last statement
    status_last  \* history: the row of the last statement

decVars == <<call, ret, fetch_pc, requests>>

statusVars == <<processor_status, status_pc, status_arg, updates, status_pre,
                status_last>>

connVars == <<conn_pc, conn_ret, reachable, calls, timeouts,
              GOT_CONNECTION_COUNT, UNABLE_TO_GET_CONNECTION_COUNT>>

vars == <<db, now, keep, left, log, pos, txn, ntx, inEvents, handling,
          pending, after, pc, run, failed, took, unmatched, pre, last, snap,
          processing_result, connVars, decVars, statusVars>>

Callers == {1, 2}

NoEntry == [e |-> "none"]
NoTxn == [e |-> "txn", kind |-> "none", version |-> 0, items |-> <<>>]
NoStatus == [processor |-> "", last_success_version |-> 0,
             last_transaction_timestamp |-> None]
NoStatement == [p |-> 0, op |-> [op |-> "none"], entry |-> NoEntry,
                version |-> 0, fin |-> FALSE, refused |-> FALSE]
NothingTaken == [p |-> 0, entry |-> NoEntry, db |-> EmptyDb, busy |-> FALSE]

\* the version range the outer pipeline asks instance p to process
StartVersion(p) == (p - 1) * MaxTxns + 1
EndVersion(p) == p * MaxTxns

NoResult == [start_version |-> 0, end_version |-> 0,
             last_transaction_timestamp |-> 0]

\* variant: the changes and the events of a transaction are handled in one
\* loop, in any order
Candidates_any_order(p) ==
    {t \in [e : {"txn"}, version : {StartVersion(p) + ntx[p]},
             kind : IF ntx[p] < MaxTxns THEN TxnKinds ELSE {},
             items : SkippedItems] :
        /\ t.kind = "user" => t.items = <<>>
        /\ t.kind = "nodata" => \A i \in 1..Len(t.items) : t.items[i].e # "event"}
    \cup {[e |-> "change", wr |-> c] :
        c \in IF txn[p].kind = "user" /\ left > 0
              THEN Changes ELSE {}}
    \cup {[e |-> "event", ev |-> v] :
        v \in IF txn[p].kind = "user" /\ left > 0 THEN Events ELSE {}}

\* what the batch can hold next, where it has not been read before
Candidates(p) ==
    {t \in [e : {"txn"}, version : {StartVersion(p) + ntx[p]},
             kind : IF ntx[p] < MaxTxns THEN TxnKinds ELSE {},
             items : SkippedItems] :
        /\ t.kind = "user" => t.items = <<>>
        /\ t.kind = "nodata" => \A i \in 1..Len(t.items) : t.items[i].e # "event"}
    \cup {[e |-> "change", wr |-> c] :
        c \in IF txn[p].kind = "user" /\ ~inEvents[p] /\ left > 0
              THEN Changes ELSE {}}
    \cup {[e |-> "event", ev |-> v] :
        v \in IF txn[p].kind = "user" /\ left > 0 THEN Events ELSE {}}

Replaying(p) == pos[p] < Len(log[p])

\* a batch processed again is the batch as it was read; where the first
\* processing was cut short by the store, the rest of it is read now
NextEntries(p) ==
    IF Replaying(p) THEN {log[p][pos[p] + 1].x}
    ELSE IF run[p] = 1 \/ failed[p] > 0 THEN Candidates(p)
    ELSE {}

\* variant: the handler is spawned, the loop does not await it
AtLoopHead_no_await(p) == pc[p] = "run"

\* the handler called last has returned: each call is awaited
AtLoopHead(p) == pc[p] = "run" /\ pending[p] = <<>>

\* a kept batch holds a transaction the loop does not enter without its
\* type and without what it carries: nothing of them is read, now or when the
\* batch is processed again
Kept(entry) ==
    IF keep /\ entry.e = "txn" /\ entry.kind # "user"
    THEN [entry EXCEPT !.kind = "nonuser", !.items = <<>>]
    ELSE entry

\* the loops of process_transactions move on to entry
Take(p, entry, t) ==
    /\ pos' = [pos EXCEPT ![p] = IF Replaying(p) \/ keep THEN @ + 1 ELSE @]
    /\ log' = IF Replaying(p) \/ ~keep THEN log
              ELSE [log EXCEPT ![p] = Append(@, [x |-> Kept(entry), at |-> t])]
    /\ left' = IF Replaying(p) \/ entry.e = "txn" THEN left ELSE left - 1
    /\ txn' = IF entry.e = "txn" THEN [txn EXCEPT ![p] = Kept(entry)] ELSE txn
    /\ ntx' = IF entry.e = "txn" THEN [ntx EXCEPT ![p] = @ + 1] ELSE ntx
    /\ inEvents' = [inEvents EXCEPT ![p] = entry.e = "event"]
    /\ took' = IF keep THEN took
               ELSE [p |-> p, entry |-> entry, db |-> db, busy |-> pending[p] # <<>>]
    /\ UNCHANGED <<keep, run, failed, unmatched, snap, processing_result,
                   connVars, decVars, statusVars>>

\* a handler is entered: its statements are queued; without statements it
\* returns at once
Enter(p, entry, plan) ==
    /\ pending' = [pending EXCEPT ![p] = plan.ops]
    /\ handling' = [handling EXCEPT ![p] = IF plan.ops = <<>> THEN NoEntry ELSE entry]
    /\ after' = [after EXCEPT ![p] = IF plan.ops = <<>> THEN "ok" ELSE plan.res]
    /\ pc' = [pc EXCEPT ![p] = IF plan.ops = <<>> /\ plan.res # "ok"
                               THEN plan.res ELSE "run"]
    /\ UNCHANGED <<db, pre, last>>

Readings == {t \in {now, now + 1} : t <= MaxClock}

InitMain(k, n, instances) ==
    /\ db = EmptyDb
    /\ now = 1
    /\ keep = k
    /\ left = n
    /\ log = [p \in Procs |-> <<>>]
    /\ pos = [p \in Procs |-> 0]
    /\ txn = [p \in Procs |-> NoTxn]
    /\ ntx = [p \in Procs |-> 0]
    /\ inEvents = [p \in Procs |-> FALSE]
    /\ handling = [p \in Procs |-> NoEntry]
    /\ pending = [p \in Procs |-> <<>>]
    /\ after = [p \in Procs |-> "ok"]
    /\ pc = [p \in Procs |-> IF p \in instances THEN "run" ELSE "idle"]
    /\ run = [p \in Procs |-> 1]
    /\ failed = [p \in Procs |-> 0]
    /\ took = NothingTaken
    /\ unmatched = {}
    /\ pre = EmptyDb
    /\ last = NoStatement
    /\ snap = EmptyDb
    /\ processing_result = [p \in Procs |-> NoResult]
    /\ conn_pc = [c \in Callers |-> "idle"]
    /\ conn_ret = [c \in Callers |-> "none"]
    /\ reachable = TRUE
    /\ calls = 0
    /\ timeouts = 0
    /\ GOT_CONNECTION_COUNT = 0
    /\ UNABLE_TO_GET_CONNECTION_COUNT = 0
    /\ processor_status = {}
    /\ status_pc = [c \in Callers |-> "idle"]
    /\ status_arg = [c \in Callers |-> NoStatus]
    /\ updates = 0
    /\ status_pre = {}
    /\ status_last = NoStatus

NoCall == [fn |-> "none", arg |-> 0]
NotReturned == [k |-> "none"]

InitWith(k, n, instances) ==
    /\ InitMain(k, n, instances)
    /\ call = NoCall
    /\ ret = NotReturned
    /\ fetch_pc = "idle"
    /\ requests = <<>>

\* variant: the loop enters the transaction all the same and handles what
\* it carries
SkipTransaction_inspects(p) ==
    /\ AtLoopHead(p)
    /\ \E entry \in NextEntries(p) :
        /\ entry.e = "txn" /\ entry.kind # "user"
        /\ Take(p, entry, 0)
        /\ IF entry.items = <<>>
           THEN UNCHANGED <<db, handling, pending, after, pc, pre, last>>
           ELSE Enter(p, entry.items[1], PlanOfEntry(entry.items[1], entry.version, now))
    /\ UNCHANGED now

\* txn_data is None, or the transaction is no user transaction or has no
\* request: continue
SkipTransaction(p) ==
    /\ AtLoopHead(p)
    /\ \E entry \in NextEntries(p) :
        /\ entry.e = "txn" /\ entry.kind # "user"
        /\ Take(p, entry, 0)
    /\ UNCHANGED <<db, now, handling, pending, after, pc, pre, last>>

BeginTransaction(p) ==
    /\ AtLoopHead(p)
    /\ \E entry \in NextEntries(p) :
        /\ entry.e = "txn" /\ entry.kind = "user"
        /\ Take(p, entry, 0)
    /\ UNCHANGED <<db, now, handling, pending, after, pc, pre, last>>

ProcessWriteResource(p) ==
    /\ AtLoopHead(p)
    /\ \E entry \in NextEntries(p) :
        /\ entry.e = "change"
        /\ \E t \in Readings :
            /\ now' = t
            /\ Take(p, entry, t)
            /\ Enter(p, entry, process_write_resource(entry.wr, t))

HandleEvent(p, types, readsClock) ==
    /\ AtLoopHead(p)
    /\ \E entry \in NextEntries(p) :
        /\ entry.e = "event"
        /\ entry.ev.type_str \in types
        /\ \E t \in IF readsClock THEN Readings ELSE {now} :
            /\ now' = t
            /\ Take(p, entry, IF readsClock THEN t ELSE 0)
            /\ Enter(p, entry, Dispatch(entry.ev, txn[p].version, t))

HandleCreateTransactionEvent(p) == HandleEvent(p, {CreateTransactionEvent}, FALSE)

HandleRemoveOwners(p) == HandleEvent(p, {RemoveOwnersEvent}, FALSE)

HandleAddOwners(p) == HandleEvent(p, {AddOwnersEvent}, TRUE)

HandleTransactionFailedEvent(p) ==
    HandleEvent(p, {TransactionExecutionFailedEvent}, FALSE)

HandleTransactionStatusEvent(p) ==
    HandleEvent(p, {ExecuteRejectedTransactionEvent,
                    TransactionExecutionSucceededEvent}, FALSE)

HandleVoteEvent(p) == HandleEvent(p, {VoteEvent}, FALSE)

\* the _ arm of the match
IgnoreEvent(p) ==
    /\ AtLoopHead(p)
    /\ \E entry \in NextEntries(p) :
        /\ entry.e = "event"
        /\ entry.ev.type_str \notin HandledEventTypes
        /\ Take(p, entry, 0)
    /\ UNCHANGED <<db, now, handling, pending, after, pc, pre, last>>

\* the next statement of the current handler reaches the store
ExecuteStatement(p) ==
    /\ pc[p] = "run"
    /\ pending[p] # <<>>
    /\ db' = ApplyOp(db, Head(pending[p]))
    /\ pre' = db
    /\ last' = [p |-> p, op |-> Head(pending[p]), entry |-> handling[p],
                version |-> txn[p].version, fin |-> Len(pending[p]) = 1,
                refused |-> FALSE]
    /\ unmatched' =
          LET o == Head(pending[p]) IN
          IF /\ ~keep
             /\ o.op \in {"update_status", "update_failed"}
             /\ \A r \in db.transactions :
                   ~(r.wallet_address = o.wallet /\ r.sequence_number = o.seq)
          THEN unmatched \cup {<<o.wallet, o.seq>>} ELSE unmatched
    /\ pending' = [pending EXCEPT ![p] = Tail(@)]
    /\ handling' = [handling EXCEPT ![p] = IF Len(pending[p]) = 1 THEN NoEntry ELSE @]
    /\ after' = [after EXCEPT ![p] = IF Len(pending[p]) = 1 THEN "ok" ELSE @]
    /\ pc' = [pc EXCEPT ![p] = IF Len(pending[p]) = 1 /\ after[p] # "ok"
                               THEN after[p] ELSE "run"]
    /\ UNCHANGED <<now, keep, left, log, pos, txn, ntx, inEvents, run, failed,
                   took, snap, processing_result, connVars,
                   decVars, statusVars>>

\* does the caller of the statement see that the store refused it:
\* update_failed_transaction_status logs the error and returns Ok(()), every
\* other function returns it with ?
Surfaces(o) == o.op # "update_failed"

\* variant: process_transactions drops the error of the handler and goes on
FailStatement_goes_on(p) ==
    /\ pc[p] = "run"
    /\ pending[p] # <<>>
    /\ failed[p] < MaxFaults
    /\ LET o == Head(pending[p])
           rest == IF Surfaces(o) THEN <<>> ELSE Tail(pending[p])
       IN /\ failed' = [failed EXCEPT ![p] = @ + 1]
          /\ pre' = db
          /\ last' = [p |-> p, op |-> o, entry |-> handling[p],
                      version |-> txn[p].version, fin |-> rest = <<>>,
                      refused |-> TRUE]
          /\ pending' = [pending EXCEPT ![p] = rest]
          /\ handling' = [handling EXCEPT ![p] = IF rest = <<>> THEN NoEntry ELSE @]
          /\ after' = [after EXCEPT ![p] = IF rest = <<>> THEN "ok" ELSE @]
          /\ pc' = [pc EXCEPT ![p] = IF rest = <<>> /\ after[p] # "ok"
                                     THEN after[p] ELSE "run"]
    /\ UNCHANGED <<db, now, keep, left, log, pos, txn, ntx, inEvents, run,
                   took, unmatched, snap, processing_result, connVars,
                   decVars, statusVars>>

\* the store refuses the next statement of the current handler
FailStatement(p) ==
    /\ pc[p] = "run"
    /\ pending[p] # <<>>
    /\ failed[p] < MaxFaults
    /\ LET o == Head(pending[p])
           rest == IF Surfaces(o) THEN <<>> ELSE Tail(pending[p])
       IN /\ failed' = [failed EXCEPT ![p] = @ + 1]
          /\ pre' = db
          /\ last' = [p |-> p, op |-> o, entry |-> handling[p],
                      version |-> txn[p].version, fin |-> rest = <<>>,
                      refused |-> TRUE]
          /\ pending' = [pending EXCEPT ![p] = rest]
          /\ handling' = [handling EXCEPT ![p] = IF rest = <<>> THEN NoEntry ELSE @]
          /\ after' = [after EXCEPT ![p] = IF rest = <<>> THEN "ok" ELSE @]
          /\ pc' = [pc EXCEPT ![p] = IF Surfaces(o) THEN "err"
                                     ELSE IF rest = <<>> /\ after[p] # "ok"
                                     THEN after[p] ELSE "run"]
    /\ UNCHANGED <<db, now, keep, left, log, pos, txn, ntx, inEvents, run,
                   took, unmatched, snap, processing_result, connVars,
                   decVars, statusVars>>

\* variant: the summary takes end_version from the last transaction read
Return_end_of_batch(p) ==
    /\ AtLoopHead(p)
    /\ ~Replaying(p)
    /\ pc' = [pc EXCEPT ![p] = IF ntx[p] = 0 THEN "panic" ELSE "ok"]
    /\ snap' = IF run[p] = 1 THEN db ELSE snap
    /\ processing_result' = [processing_result EXCEPT ![p] =
                     IF ntx[p] = 0 THEN @
                     ELSE [start_version |-> StartVersion(p),
                           end_version |-> txn[p].version,
                           last_transaction_timestamp |-> txn[p].version]]
    /\ UNCHANGED <<db, now, keep, left, log, pos, txn, ntx, inEvents,
                   handling, pending, after, run, failed, took, unmatched, pre,
                   last, connVars, decVars, statusVars>>

\* the loop is over: transactions.last().unwrap() (txn is the transaction
\* the loop read last, entered or not) and Ok(ProcessingResult {..}) with
\* start_version and end_version as they were passed in
Return(p) ==
    /\ AtLoopHead(p)
    /\ ~Replaying(p)
    /\ pc' = [pc EXCEPT ![p] = IF ntx[p] = 0 THEN "panic" ELSE "ok"]
    /\ snap' = IF run[p] = 1 THEN db ELSE snap
    /\ processing_result' = [processing_result EXCEPT ![p] =
                     IF ntx[p] = 0 THEN @
                     ELSE [start_version |-> StartVersion(p),
                           end_version |-> EndVersion(p),
                           last_transaction_timestamp |-> txn[p].version]]
    /\ UNCHANGED <<db, now, keep, left, log, pos, txn, ntx, inEvents,
                   handling, pending, after, run, failed, took, unmatched, pre,
                   last, connVars, decVars, statusVars>>

\* the outer pipeline hands the same batch to process_transactions again
Reprocess(p) ==
    /\ pc[p] = "ok"
    /\ run[p] = 1
    /\ run' = [run EXCEPT ![p] = 2]
    /\ pos' = [pos EXCEPT ![p] = 0]
    /\ txn' = [txn EXCEPT ![p] = NoTxn]
    /\ ntx' = [ntx EXCEPT ![p] = 0]
    /\ inEvents' = [inEvents EXCEPT ![p] = FALSE]
    /\ pc' = [pc EXCEPT ![p] = "run"]
    /\ UNCHANGED <<db, now, keep, left, log, handling, pending, after,
                   failed, took, unmatched, pre, last, snap, processing_result,
                   connVars, decVars, statusVars>>

\* the outer pipeline hands the batch that stopped at a refused statement to
\* process_transactions again, from its first transaction
Retry(p) ==
    /\ pc[p] = "err"
    /\ run[p] = 1
    /\ last.p = p /\ last.refused
    /\ run' = [run EXCEPT ![p] = 2]
    /\ pos' = [pos EXCEPT ![p] = 0]
    /\ txn' = [txn EXCEPT ![p] = NoTxn]
    /\ ntx' = [ntx EXCEPT ![p] = 0]
    /\ inEvents' = [inEvents EXCEPT ![p] = FALSE]
    /\ pc' = [pc EXCEPT ![p] = "run"]
    /\ UNCHANGED <<db, now, keep, left, log, handling, pending, after,
                   failed, took, unmatched, pre, last, snap, processing_result,
                   connVars, decVars, statusVars>>

Step(p) ==
    \/ SkipTransaction(p)
    \/ BeginTransaction(p)
    \/ ProcessWriteResource(p)
    \/ HandleCreateTransactionEvent(p)
    \/ HandleRemoveOwners(p)
    \/ HandleAddOwners(p)
    \/ HandleTransactionFailedEvent(p)
    \/ HandleTransactionStatusEvent(p)
    \/ HandleVoteEvent(p)
    \/ IgnoreEvent(p)
    \/ ExecuteStatement(p)
    \/ Return(p)

\* one instance, one batch
Init == InitWith(FALSE, MaxItems, {1})

Next == Step(1)

Spec == Init /\ [][Next]_vars

\* one instance, the batch processed a second time after it returned
InitReplay == InitWith(TRUE, MaxItems, {1})

NextReplay == Step(1) \/ Reprocess(1)

SpecReplay == InitReplay /\ [][NextReplay]_vars

\* two instances on batches of disjoint version ranges, on the same store
InitConc == InitWith(TRUE, MaxConcItems, Procs)

NextConc == \E p \in Procs : Step(p)

SpecConc == InitConc /\ [][NextConc]_vars

\* one instance, one batch, a store that can refuse statements
NextFail == Step(1) \/ FailStatement(1)

SpecFail == Init /\ [][NextFail]_vars

\* one instance, the batch processed again after it stopped at a refused
\* statement
NextRetry == Step(1) \/ FailStatement(1) \/ Retry(1)

SpecRetry == InitReplay /\ [][NextRetry]_vars

\* one instance, one batch kept as it is read, a store that can refuse
\* statements
SpecFailKept == InitReplay /\ [][NextFail]_vars

\* ---------------------------------------------------------------- get_conn
mainVars == <<db, now, keep, left, log, pos, txn, ntx, inEvents, handling,
              pending, after, pc, run, failed, took, unmatched, pre, last,
              snap, processing_result>>

\* get_conn is called: loop { match pool.get().await
GetConn(c) ==
    /\ conn_pc[c] = "idle"
    /\ calls < MaxCalls
    /\ calls' = calls + 1
    /\ conn_pc' = [conn_pc EXCEPT ![c] = "get"]
    /\ conn_ret' = [conn_ret EXCEPT ![c] = "none"]
    /\ UNCHANGED <<reachable, timeouts, GOT_CONNECTION_COUNT,
                   UNABLE_TO_GET_CONNECTION_COUNT, mainVars,
                   decVars, statusVars>>

\* pool.get() returns: a connection when the pool reaches the store, an error
\* (its timeout) when it does not
PoolGet(c) ==
    /\ conn_pc[c] = "get"
    /\ reachable \/ timeouts < MaxTimeouts
    /\ conn_pc' = [conn_pc EXCEPT ![c] = IF reachable THEN "ok" ELSE "err"]
    /\ timeouts' = IF reachable THEN timeouts ELSE timeouts + 1
    /\ UNCHANGED <<conn_ret, reachable, calls, GOT_CONNECTION_COUNT,
                   UNABLE_TO_GET_CONNECTION_COUNT, mainVars,
                   decVars, statusVars>>

\* Ok(conn) => { GOT_CONNECTION_COUNT.inc(); return conn; }
GetConnOk(c) ==
    /\ conn_pc[c] = "ok"
    /\ GOT_CONNECTION_COUNT' = GOT_CONNECTION_COUNT + 1
    /\ conn_pc' = [conn_pc EXCEPT ![c] = "returned"]
    /\ conn_ret' = [conn_ret EXCEPT ![c] = "conn"]
    /\ UNCHANGED <<reachable, calls, timeouts, UNABLE_TO_GET_CONNECTION_COUNT,
                   mainVars, decVars, statusVars>>

\* variant: the error arm gives up and returns without a connection
GetConnErr_gives_up(c) ==
    /\ conn_pc[c] = "err"
    /\ UNABLE_TO_GET_CONNECTION_COUNT' = UNABLE_TO_GET_CONNECTION_COUNT + 1
    /\ conn_pc' = [conn_pc EXCEPT ![c] = "returned"]
    /\ UNCHANGED <<conn_ret, reachable, calls, timeouts, GOT_CONNECTION_COUNT,
                   mainVars, decVars, statusVars>>

\* Err(err) => { UNABLE_TO_GET_CONNECTION_COUNT.inc(); error!(..) } and the
\* loop goes round
GetConnErr(c) ==
    /\ conn_pc[c] = "err"
    /\ UNABLE_TO_GET_CONNECTION_COUNT' = UNABLE_TO_GET_CONNECTION_COUNT + 1
    /\ conn_pc' = [conn_pc EXCEPT ![c] = "get"]
    /\ UNCHANGED <<conn_ret, reachable, calls, timeouts, GOT_CONNECTION_COUNT,
                   mainVars, decVars, statusVars>>

\* the caller drops the connection; it can call get_conn again
DropConnection(c) ==
    /\ conn_pc[c] = "returned"
    /\ conn_pc' = [conn_pc EXCEPT ![c] = "idle"]
    /\ UNCHANGED <<conn_ret, reachable, calls, timeouts, GOT_CONNECTION_COUNT,
                   UNABLE_TO_GET_CONNECTION_COUNT, mainVars,
                   decVars, statusVars>>

\* the store becomes unreachable, or reachable again
Outage ==
    /\ reachable' = ~reachable
    /\ UNCHANGED <<conn_pc, conn_ret, calls, timeouts, GOT_CONNECTION_COUNT,
                   UNABLE_TO_GET_CONNECTION_COUNT, mainVars,
                   decVars, statusVars>>

InitConn == InitWith(FALSE, 0, {})

NextConn ==
    \/ \E c \in Callers :
          \/ GetConn(c)
          \/ PoolGet(c)
          \/ GetConnOk(c)
          \/ GetConnErr(c)
          \/ DropConnection(c)
    \/ Outage

\* pool.get() returns within its timeout and the arms of the match run on
SpecConn ==
    /\ InitConn
    /\ [][NextConn]_vars
    /\ \A c \in Callers :
          WF_vars(PoolGet(c)) /\ WF_vars(GetConnOk(c)) /\ WF_vars(GetConnErr(c))

\* ------------------------------------------- update_last_processed_version
\* self.name()
ProcessorName == "multisig_processor"

\* variant: the upsert without its WHERE clause
update_last_processed_version_query_unguarded(table, status) ==
    IF \E r \in table : r.processor = status.processor
    THEN {IF r.processor = status.processor
          THEN status ELSE r : r \in table}
    ELSE table \cup {status}

\* INSERT INTO processor_status VALUES status ON CONFLICT (processor) DO
\* UPDATE SET last_success_version, last_updated, last_transaction_timestamp
\* = excluded.. WHERE processor_status.last_success_version <=
\* EXCLUDED.last_success_version (last_updated, the time of the write, is
\* left out of the rows)
update_last_processed_version_query(table, status) ==
    IF \E r \in table : r.processor = status.processor
    THEN {IF /\ r.processor = status.processor
             /\ r.last_success_version <= status.last_success_version
          THEN status ELSE r : r \in table}
    ELSE table \cup {status}

\* update_last_processed_version is called: the row is built from the
\* version and the timestamp passed in (version as i64 is the version itself
\* for the versions of a ledger, which are below 2^63)
BuildStatus(c) ==
    /\ status_pc[c] = "idle"
    /\ updates < MaxUpdates
    /\ \E version \in 0..MaxVersion, timestamp \in {None} \cup {Some(t) : t \in 1..2} :
          status_arg' = [status_arg EXCEPT ![c] =
                            [processor |-> ProcessorName,
                             last_success_version |-> version,
                             last_transaction_timestamp |-> timestamp]]
    /\ status_pc' = [status_pc EXCEPT ![c] = "built"]
    /\ updates' = updates + 1
    /\ UNCHANGED <<processor_status, status_pre, status_last, mainVars,
                   connVars, decVars>>

\* execute_with_better_error: the statement reaches the store
ExecuteStatus(c) ==
    /\ status_pc[c] = "built"
    /\ processor_status' =
          update_last_processed_version_query(processor_status, status_arg[c])
    /\ status_pre' = processor_status
    /\ status_last' = status_arg[c]
    /\ status_pc' = [status_pc EXCEPT ![c] = "idle"]
    /\ UNCHANGED <<status_arg, updates, mainVars, connVars, decVars>>

NextStatus == \E c \in Callers : BuildStatus(c) \/ ExecuteStatus(c)

\* update_last_processed_version alone, called by concurrent tasks
SpecStatus == InitConn /\ [][NextStatus]_vars

\* ------------------------------------------------------------ utils::mapper
\* A type string is the sequence of its tokens: the names, "<" and ">".  No
\* token is a prefix of another or a concatenation of others, so two type
\* strings are the same text exactly when they are the same sequence.
Prim(name) == [l |-> name]
VectorOf(layout) == [l |-> "Vector", of |-> layout]
StructOf(fields) == [l |-> "Struct", fields |-> fields]

OptionName == "0x1::option::Option"
ObjectName == "0x1::object::Object"
StringName == "0x1::string::String"

\* str::starts_with, str::strip_prefix, str::strip_suffix, str::replace
StartsWith(s, prefix) == Len(s) >= Len(prefix) /\ SubSeq(s, 1, Len(prefix)) = prefix
StripPrefix(s, prefix) ==
    IF StartsWith(s, prefix) THEN Some(SubSeq(s, Len(prefix) + 1, Len(s))) ELSE None
StripSuffix(s, suffix) ==
    IF Len(s) >= Len(suffix) /\ SubSeq(s, Len(s) - Len(suffix) + 1, Len(s)) = suffix
    THEN Some(SubSeq(s, 1, Len(s) - Len(suffix))) ELSE None
Replace(s, from, to) == [i \in 1..Len(s) |-> IF s[i] = from THEN to ELSE s[i]]

RECURSIVE map_string_to_move_type(_)
RECURSIVE parse_vector(_)

\* variant: Option is not rewritten to vector
parse_vector_no_option(type_string) ==
    LET prefix == StripPrefix(type_string, <<"vector", "<">>)
        stripped == IF IsSome(prefix) THEN StripSuffix(Get(prefix), <<">">>) ELSE None
    IN
    IF IsSome(stripped)
    THEN LET layout == map_string_to_move_type(Get(stripped)) IN
         IF IsSome(layout) THEN Some(VectorOf(Get(layout))) ELSE None
    ELSE None

parse_vector(type_string) ==
    LET replaced == IF StartsWith(type_string, <<OptionName>>)
                    THEN Replace(type_string, OptionName, "vector")
                    ELSE type_string
        prefix == StripPrefix(replaced, <<"vector", "<">>)
        stripped == IF IsSome(prefix) THEN StripSuffix(Get(prefix), <<">">>) ELSE None
    IN
    IF IsSome(stripped)
    THEN LET layout == map_string_to_move_type(Get(stripped)) IN
         IF IsSome(layout) THEN Some(VectorOf(Get(layout))) ELSE None
    ELSE None

map_string_to_move_type(type_string) ==
    CASE type_string = <<"address">> -> Some(Prim("Address"))
      [] type_string = <<"bool">> -> Some(Prim("Bool"))
      [] type_string = <<"u8">> -> Some(Prim("U8"))
      [] type_string = <<"u16">> -> Some(Prim("U16"))
      [] type_string = <<"u32">> -> Some(Prim("U32"))
      [] type_string = <<"u64">> -> Some(Prim("U64"))
      [] type_string = <<"u128">> -> Some(Prim("U128"))
      [] type_string = <<"u256">> -> Some(Prim("U256"))
      [] type_string = <<"&signer">> -> Some(Prim("Signer"))
      [] type_string = <<ObjectName>> -> Some(Prim("Address"))
      [] type_string # <<ObjectName>> /\ StartsWith(type_string, <<ObjectName, "<">>) ->
            Some(Prim("Address"))
      [] type_string = <<StringName>> -> Some(StructOf(<<VectorOf(Prim("U8"))>>))
      [] OTHER -> parse_vector(type_string)

\* a number is the sequence of its bytes, the lowest first (as BCS writes it)
ByteWidth == [U8 |-> 1, U16 |-> 2, U32 |-> 4, U64 |-> 8, U128 |-> 16, U256 |-> 32]
Numeric == DOMAIN ByteWidth

MoveNumber(t, n) == [t |-> t, n |-> n]
MoveBool(b) == [t |-> "Bool", b |-> b]
MoveAddress(a) == [t |-> "Address", a |-> a]
MoveSigner(a) == [t |-> "Signer", a |-> a]
MoveVector(vec) == [t |-> "Vector", vec |-> vec]
MoveStruct(fields) == [t |-> "Struct", fields |-> fields]

\* a number without its high zero bytes: equal numbers, equal sequences
RECURSIVE TrimZeros(_)
TrimZeros(n) ==
    IF n # <<>> /\ n[Len(n)] = 0 THEN TrimZeros(SubSeq(n, 1, Len(n) - 1)) ELSE n

\* serde_json::Number::from of an unsigned integer of at most 64 bits
JsonNumber(n) == [k |-> "number", p |-> TrimZeros(n)]
JsonBool(b) == [k |-> "bool", p |-> b]
JsonString(text) == IF text = <<>> THEN JsonEmptyString ELSE [k |-> "string", p |-> text]
JsonArray(values) == [k |-> "array", p |-> values]

\* num as u64, U256::unchecked_as_u64: the low 64 bits
AsU64(n) == SubSeq(n, 1, 8)

\* AccountAddress::to_string: the bytes in hex
AddressToString(a) == <<"hex">> \o a

RECURSIVE parse_nested_move_values(_)

\* variant: a u128 or u256 is flattened with all its bytes
parse_nested_move_values_untruncated(input) ==
    CASE input.t = "Vector" ->
            IF input.vec = <<>> THEN JsonArray(<<>>)
            ELSE JsonArray([i \in 1..Len(input.vec) |->
                              parse_nested_move_values(input.vec[i])])
      [] input.t \in {"U8", "U16", "U32", "U64"} -> JsonNumber(input.n)
      [] input.t = "U128" -> JsonNumber(input.n)
      [] input.t = "U256" -> JsonNumber(input.n)
      [] input.t = "Bool" -> JsonBool(input.b)
      [] input.t = "Address" -> JsonString(AddressToString(input.a))
      [] input.t = "Signer" -> JsonString(AddressToString(input.a))
      [] OTHER -> JsonNull

parse_nested_move_values(input) ==
    CASE input.t = "Vector" ->
            IF input.vec = <<>> THEN JsonArray(<<>>)
            ELSE JsonArray([i \in 1..Len(input.vec) |->
                              parse_nested_move_values(input.vec[i])])
      [] input.t \in {"U8", "U16", "U32", "U64"} -> JsonNumber(input.n)
      [] input.t = "U128" -> JsonNumber(AsU64(input.n))
      [] input.t = "U256" -> JsonNumber(AsU64(input.n))
      [] input.t = "Bool" -> JsonBool(input.b)
      [] input.t = "Address" -> JsonString(AddressToString(input.a))
      [] input.t = "Signer" -> JsonString(AddressToString(input.a))
      [] OTHER -> JsonNull

\* ------------------------------------------------------------ utils::utils
\* BCS: a length is ULEB128, seven bits a byte, the lowest first
Parsed(value, rest) == [ok |-> TRUE, val |-> value, rest |-> rest]
Unparsed == [ok |-> FALSE, val |-> 0, rest |-> <<>>]

RECURSIVE Uleb128(_)
Uleb128(bytes) ==
    IF bytes = <<>> THEN Unparsed
    ELSE IF bytes[1] < 128 THEN Parsed(bytes[1], Tail(bytes))
    ELSE LET high == Uleb128(Tail(bytes)) IN
         IF ~high.ok \/ high.val = 0 \/ high.val > 33554431 THEN Unparsed
         ELSE Parsed(bytes[1] - 128 + 128 * high.val, high.rest)

RECURSIVE DeserializeValue(_, _)
RECURSIVE DeserializeElements(_, _, _)
RECURSIVE DeserializeFields(_, _)

\* the value at the head of the bytes and the bytes after it
DeserializeValue(bytes, layout) ==
    CASE layout.l = "Bool" ->
            IF bytes # <<>> /\ bytes[1] \in {0, 1}
            THEN Parsed(MoveBool(bytes[1] = 1), Tail(bytes)) ELSE Unparsed
      [] layout.l \in Numeric ->
            IF Len(bytes) >= ByteWidth[layout.l]
            THEN Parsed(MoveNumber(layout.l, SubSeq(bytes, 1, ByteWidth[layout.l])),
                        SubSeq(bytes, ByteWidth[layout.l] + 1, Len(bytes)))
            ELSE Unparsed
      [] layout.l \in {"Address", "Signer"} ->
            IF Len(bytes) >= 32
            THEN Parsed(IF layout.l = "Address" THEN MoveAddress(SubSeq(bytes, 1, 32))
                        ELSE MoveSigner(SubSeq(bytes, 1, 32)),
                        SubSeq(bytes, 33, Len(bytes)))
            ELSE Unparsed
      [] layout.l = "Vector" ->
            LET length == Uleb128(bytes) IN
            IF ~length.ok THEN Unparsed
            ELSE LET elements == DeserializeElements(length.rest, layout.of, length.val) IN
                 IF elements.ok THEN Parsed(MoveVector(elements.val), elements.rest)
                 ELSE Unparsed
      [] layout.l = "Struct" ->
            LET fields == DeserializeFields(bytes, layout.fields) IN
            IF fields.ok THEN Parsed(MoveStruct(fields.val), fields.rest) ELSE Unparsed

DeserializeElements(bytes, layout, n) ==
    IF n = 0 THEN Parsed(<<>>, bytes)
    ELSE IF bytes = <<>> THEN Unparsed
    ELSE LET first == DeserializeValue(bytes, layout) IN
         IF ~first.ok THEN Unparsed
         ELSE LET others == DeserializeElements(first.rest, layout, n - 1) IN
              IF others.ok THEN Parsed(<<first.val>> \o others.val, others.rest)
              ELSE Unparsed

DeserializeFields(bytes, layouts) ==
    IF layouts = <<>> THEN Parsed(<<>>, bytes)
    ELSE LET first == DeserializeValue(bytes, Head(layouts)) IN
         IF ~first.ok THEN Unparsed
         ELSE LET others == DeserializeFields(first.rest, Tail(layouts)) IN
              IF others.ok THEN Parsed(<<first.val>> \o others.val, others.rest)
              ELSE Unparsed

\* MoveValue::simple_deserialize: the bytes are one value of the layout and
\* nothing more
simple_deserialize(blob, layout) ==
    LET value == DeserializeValue(blob, layout) IN
    IF value.ok /\ value.rest = <<>> THEN [ok |-> TRUE, val |-> value.val]
    ELSE [ok |-> FALSE, val |-> 0]

Ok(value) == [ok |-> TRUE, val |-> value]
Err(error) == [ok |-> FALSE, val |-> error]

\* the function of the ABI document with the name, if the document has one
FindFunction(function_details, function) ==
    LET functions == Get(function_details.exposed_functions)
        found == {i \in 1..Len(functions) : functions[i].name = function}
    IN
    IF found = {} THEN None
    ELSE Some(functions[CHOOSE i \in found : \A j \in found : i <= j])

\* .filter(|&x| x.as_str() != Some("&signer"))
WithoutSigner(params) == SelectSeq(params, LAMBDA x : x # <<"&signer">>)

\* the closure of parse_function_args: one argument to its JSON value
ArgumentValue(param, arg) ==
    LET type_layout == map_string_to_move_type(param) IN
    IF ~IsSome(type_layout) THEN Ok(JsonNull)
    ELSE LET move_value == simple_deserialize(arg, Get(type_layout)) IN
         IF ~move_value.ok THEN Err("deserialize")
         ELSE LET json_vec == parse_nested_move_values(move_value.val) IN
              Ok(FromStrOrNull(TextOfJson(json_vec)))

\* variant: a count of parameters that differs from the count of arguments
\* is an error
parse_function_args_mismatch_fails(function_details, args, function) ==
    IF ~IsSome(function_details.exposed_functions) THEN Err("Function details missing")
    ELSE LET found == FindFunction(function_details, function) IN
    IF ~IsSome(found) THEN Err("Function not found")
    ELSE IF ~IsSome(Get(found).params) THEN Err("Parameters missing")
    ELSE LET function_params == WithoutSigner(Get(Get(found).params)) IN
    IF Len(args) # Len(function_params) THEN Err("mismatch")
    ELSE LET values == [index \in 1..Len(args) |->
                          ArgumentValue(function_params[index], args[index])]
         IN
         IF \E index \in 1..Len(args) : ~values[index].ok THEN Err("deserialize")
         ELSE Ok([index \in 1..Len(args) |-> values[index].val])

parse_function_args(function_details, args, function) ==
    IF ~IsSome(function_details.exposed_functions) THEN Err("Function details missing")
    ELSE LET found == FindFunction(function_details, function) IN
    IF ~IsSome(found) THEN Err("Function not found")
    ELSE IF ~IsSome(Get(found).params) THEN Err("Parameters missing")
    ELSE LET function_params == WithoutSigner(Get(Get(found).params)) IN
    IF Len(args) # Len(function_params) THEN Ok(<<>>)
    ELSE LET values == [index \in 1..Len(args) |->
                          ArgumentValue(function_params[index], args[index])]
         IN
         IF \E index \in 1..Len(args) : ~values[index].ok THEN Err("deserialize")
         ELSE Ok([index \in 1..Len(args) |-> values[index].val])

JsonObject(members) == [k |-> "object", p |-> members]

\* value[key] = member
SetMember(value, key, member) == JsonObject((key :> member) @@ value.p)

\* serde_helper::vec_bytes: each argument as the array of its bytes
vec_bytes(args) ==
    JsonArray([i \in 1..Len(args) |->
                 JsonArray([j \in 1..Len(args[i]) |-> JsonNumber(<<args[i][j]>>)])])

\* serde_json::to_value(&payload_parsed): the derived Serialize of
\* MultisigTransactionPayload::EntryFunction(EntryFunction { .. })
to_value(payload_parsed) ==
    JsonObject([EntryFunction |->
        JsonObject([module |-> JsonObject([address |-> JsonString(AddressToString(payload_parsed.module.address)),
                                           name |-> JsonString(<<payload_parsed.module.name>>)]),
                    function |-> JsonString(<<payload_parsed.function>>),
                    ty_args |-> JsonArray(payload_parsed.ty_args),
                    args |-> vec_bytes(payload_parsed.args)])])

\* variant: the result is the parsed arguments alone
process_entry_function_from_args_only(payload_parsed, function_details) ==
    LET parsed_args == parse_function_args(function_details, payload_parsed.args, payload_parsed.function) IN
    IF ~parsed_args.ok THEN parsed_args
    ELSE Ok(JsonObject([EntryFunction |-> JsonObject([parsed_args |-> JsonArray(parsed_args.val)])]))

\* process_entry_function from the function details on: parse the
\* arguments, attach them to the payload as JSON
process_entry_function_from(payload_parsed, function_details) ==
    LET parsed_args == parse_function_args(function_details, payload_parsed.args, payload_parsed.function) IN
    IF ~parsed_args.ok THEN parsed_args
    ELSE LET json_payload == to_value(payload_parsed) IN
         Ok(SetMember(json_payload, "EntryFunction",
                      SetMember(json_payload.p.EntryFunction, "parsed_args",
                                JsonArray(parsed_args.val))))

\* the strings of a response body
StringsOf(body) ==
    (IF IsSome(body.error_code) THEN {Get(body.error_code)} ELSE {})
    \cup (IF IsSome(body.exposed_functions)
          THEN {Get(body.exposed_functions)[i].name : i \in 1..Len(Get(body.exposed_functions))}
          ELSE {})

\* Regex::new("module_not_found").is_match(&result.to_string())
is_match(body) == "module_not_found" \in StringsOf(body)

\* ---------------------------------------------------------- inputs of utils
\* numbers of a width: zero, one and the largest byte, at the lowest byte,
\* around the 64th bit and at the highest byte
NumberSamples(t) ==
    {[i \in 1..ByteWidth[t] |->
         IF i = 1 THEN a ELSE IF i = ByteWidth[t] THEN e
         ELSE IF i = 8 THEN b ELSE IF i = 9 THEN c ELSE 0] :
       a \in {0, 1, 255}, b \in {0, 255}, c \in {0, 1}, e \in {0, 255}}

\* "h", "i", the two bytes of "e" with an acute accent, a byte no UTF-8 text has
ByteSamples == {104, 105, 195, 169, 255}

SeqsTo(S, n) == UNION {[1..m -> S] : m \in 0..n}

ByteVectors == {MoveVector([i \in 1..Len(bytes) |-> MoveNumber("U8", <<bytes[i]>>)]) : bytes \in SeqsTo(ByteSamples, MaxVecLen)}

NestedSamples ==
    {MoveVector(<<>>),
     MoveVector(<<MoveNumber("U8", <<104>>), MoveNumber("U8", <<105>>)>>),
     MoveVector(<<MoveNumber("U8", <<255>>)>>),
     MoveVector(<<MoveNumber("U64", <<1, 0, 0, 0, 0, 0, 0, 0>>)>>)}

AddressSample == [i \in 1..32 |-> IF i = 32 THEN 1 ELSE 0]

MoveValues ==
    UNION {{MoveNumber(t, n) : n \in NumberSamples(t)} : t \in Numeric}
    \cup ByteVectors
    \cup {MoveVector(vec) : vec \in SeqsTo(NestedSamples, MaxVecLen) \ {<<>>}}
    \cup {MoveVector(<<MoveVector(<<v>>)>>) : v \in NestedSamples}
    \cup {MoveBool(TRUE), MoveBool(FALSE), MoveAddress(AddressSample),
          MoveSigner(AddressSample),
          MoveStruct(<<MoveVector(<<MoveNumber("U8", <<104>>)>>)>>)}

AtomStrings ==
    {<<t>> : t \in {"address", "bool", "u8", "u16", "u32", "u64", "u128", "u256",
                    "&signer", "signer", StringName, ObjectName, OptionName,
                    "vector", "0x1::coin::Coin"}} \cup {<<>>}

\* a type string wrapped as the ABI wraps it, and with a bracket missing
Wrapped(t) ==
    {<<"vector", "<">> \o t \o <<">">>,
     <<OptionName, "<">> \o t \o <<">">>,
     <<ObjectName, "<">> \o t \o <<">">>,
     <<"vector", "<">> \o t,
     <<ObjectName, "<">> \o t,
     t \o <<">">>}

RECURSIVE TypeStringsTo(_)
TypeStringsTo(depth) ==
    IF depth = 0 THEN AtomStrings
    ELSE LET inner == TypeStringsTo(depth - 1) IN
         inner \cup UNION {Wrapped(t) : t \in inner}

TypeStrings == TypeStringsTo(MaxTypeDepth)

\* parameter types: with a layout, a signer reference, without a layout
ParamTypes ==
    {<<"u8">>, <<"bool">>, <<"vector", "<", "u8", ">">>, <<"&signer">>,
     <<"0x1::coin::Coin">>}

\* argument bytes: a u8 or the bool true, a byte that is no bool, the
\* vector "hi", a vector cut short, nothing
ArgBytes == {<<1>>, <<7>>, <<2, 104, 105>>, <<2, 104>>, <<>>}

AbiFunction(name, params) == [name |-> name, params |-> params]

\* the ABI document: abi.exposed_functions with the function called
\* "transfer" after another one, without it, and a body without the abi
FunctionDetails ==
    {[exposed_functions |-> Some(<<AbiFunction("init", Some(<<>>)), AbiFunction("transfer", Some(params))>>)] : params \in SeqsTo(ParamTypes, MaxArgs)}
    \cup {[exposed_functions |-> Some(<<AbiFunction("transfer", None)>>)],
          [exposed_functions |-> Some(<<AbiFunction("init", Some(<<>>))>>)],
          [exposed_functions |-> None]}

\* what a network answers: no answer (reqwest::get fails), a body that is
\* not JSON, the error body of a module the network does not have, the
\* error body of another error, an ABI document, an ABI document with a
\* function called module_not_found
Transport(kind) == [kind |-> kind, body |-> [error_code |-> None, exposed_functions |-> None]]
Body(error_code, exposed_functions) == [kind |-> "json", body |-> [error_code |-> error_code, exposed_functions |-> exposed_functions]]

Responses ==
    {Transport("transport_error"), Transport("not_json"),
     Body(Some("module_not_found"), None),
     Body(Some("account_not_found"), None),
     Body(None, Some(<<AbiFunction("module_not_found", Some(<<>>)), AbiFunction("transfer", Some(<<<<"u8">>>>))>>))}
    \cup {Body(None, fd.exposed_functions) : fd \in FunctionDetails}

EntryFunctions ==
    {[module |-> [address |-> AddressSample, name |-> "coin"],
      function |-> "transfer", ty_args |-> <<>>, args |-> args] : args \in SeqsTo(ArgBytes, MaxArgs)}

Call(fn, arg) == [fn |-> fn, arg |-> arg]
Returned(v) == [k |-> "returned", v |-> v]

\* ------------------------------------------------ the functions of utils
MapType ==
    /\ call.fn = "map_string_to_move_type"
    /\ ret = NotReturned
    /\ ret' = Returned(map_string_to_move_type(call.arg))
    /\ UNCHANGED <<call, fetch_pc, requests, mainVars, connVars, statusVars>>

Flatten ==
    /\ call.fn = "parse_nested_move_values"
    /\ ret = NotReturned
    /\ ret' = Returned(parse_nested_move_values(call.arg))
    /\ UNCHANGED <<call, fetch_pc, requests, mainVars, connVars, statusVars>>

ParseArgs ==
    /\ call.fn = "parse_function_args"
    /\ ret = NotReturned
    /\ ret' = Returned(parse_function_args(call.arg.function_details, call.arg.args, call.arg.function))
    /\ UNCHANGED <<call, fetch_pc, requests, mainVars, connVars, statusVars>>

\* process_entry_function up to fetch_function_details: the request to the
\* primary network is sent
SendPrimary ==
    /\ call.fn = "process_entry_function"
    /\ fetch_pc = "idle"
    /\ ret = NotReturned
    /\ requests' = Append(requests, [network |-> "mainnet", response |-> Transport("none")])
    /\ fetch_pc' = "primary"
    /\ UNCHANGED <<call, ret, mainVars, connVars, statusVars>>

Answered(response) == [requests EXCEPT ![Len(requests)].response = response]

\* variant: any failure of the primary network sends the request to the
\* secondary network
PrimaryResponse_retries_failures ==
    \E response \in Responses :
        /\ fetch_pc = "primary"
        /\ IF response.kind # "json" \/ is_match(response.body)
           THEN /\ requests' = Append(Answered(response), [network |-> "testnet", response |-> Transport("none")])
                /\ fetch_pc' = "secondary"
                /\ ret' = ret
           ELSE /\ requests' = Answered(response)
                /\ fetch_pc' = "done"
                /\ ret' = Returned(process_entry_function_from(call.arg, response.body))
        /\ UNCHANGED <<call, mainVars, connVars, statusVars>>

\* the primary network answers: reqwest::get(..).await?, response.json(),
\* the match of module_not_found, and on to the end when there is no match
PrimaryResponse ==
    \E response \in Responses :
        /\ fetch_pc = "primary"
        /\ IF response.kind # "json"
           THEN /\ requests' = Answered(response)
                /\ fetch_pc' = "done"
                /\ ret' = Returned(Err(response.kind))
           ELSE IF is_match(response.body)
           THEN /\ requests' = Append(Answered(response), [network |-> "testnet", response |-> Transport("none")])
                /\ fetch_pc' = "secondary"
                /\ ret' = ret
           ELSE /\ requests' = Answered(response)
                /\ fetch_pc' = "done"
                /\ ret' = Returned(process_entry_function_from(call.arg, response.body))
        /\ UNCHANGED <<call, mainVars, connVars, statusVars>>

\* the secondary network answers, and on to the end
SecondaryResponse ==
    \E response \in Responses :
        /\ fetch_pc = "secondary"
        /\ requests' = Answered(response)
        /\ fetch_pc' = "done"
        /\ ret' = Returned(IF response.kind # "json" THEN Err(response.kind)
                           ELSE process_entry_function_from(call.arg, response.body))
        /\ UNCHANGED <<call, mainVars, connVars, statusVars>>

InitDecode ==
    /\ InitMain(FALSE, 0, {})
    /\ call \in {Call("process_entry_function", payload) : payload \in EntryFunctions}
    /\ ret = NotReturned
    /\ fetch_pc = "idle"
    /\ requests = <<>>

NextDecode ==
    \/ SendPrimary
    \/ PrimaryResponse
    \/ SecondaryResponse

SpecDecode == InitDecode /\ [][NextDecode]_vars

PureCalls ==
    {Call("map_string_to_move_type", s) : s \in TypeStrings}
    \cup {Call("parse_nested_move_values", v) : v \in MoveValues}
    \cup {Call("parse_function_args", [function_details |-> fd, args |-> args, function |-> "transfer"]) : fd \in FunctionDetails, args \in SeqsTo(ArgBytes, MaxArgs)}

InitPure ==
    /\ InitMain(FALSE, 0, {})
    /\ call \in PureCalls
    /\ ret = NotReturned
    /\ fetch_pc = "idle"
    /\ requests = <<>>

NextPure ==
    \/ MapType
    \/ Flatten
    \/ ParseArgs

SpecPure == InitPure /\ [][NextPure]_vars

\* ------------------------------------------------------------ properties
LastEvent(t) == last.entry.e = "event" /\ last.entry.ev.type_str = t

\* an event body that is JSON and carries its sequence_number
HasSequenceNumber(ev) ==
    ev.json_ok /\ IsSome(ev.sequence_number) /\ SequenceNumberOf(ev).ok

TransactionsAt(d, w, n) ==
    {r \in d.transactions : r.wallet_address = w /\ r.sequence_number = n}

VotesAt(d, w, n, v) ==
    {r \in d.votes : /\ r.wallet_address = w
                     /\ r.transaction_sequence = n
                     /\ r.voter_address = v}

OwnersOfWallet(d, w) ==
    {r.owner_address : r \in {x \in d.owners_wallets : x.wallet_address = w}}

\* C2: when the statement of a TransactionExecutionSucceededEvent (with its
\* sequence_number and executor) meets the Pending row that a
\* CreateTransactionEvent stored for the same (wallet_address,
\* sequence_number), that key has exactly one row afterwards: status Success,
\* executor the event's, executed_at the transaction timestamp, payload the
\* decoded form of the event's payload, everything else as before.  No key of
\* the transactions table ever has two rows.
CreateThenSucceeded ==
    /\ \A r1, r2 \in db.transactions : TransactionKey(r1, r2) => r1 = r2
    /\ (/\ LastEvent(TransactionExecutionSucceededEvent)
        /\ HasSequenceNumber(last.entry.ev)
        /\ IsSome(last.entry.ev.executor))
       => LET ev == last.entry.ev
              w == standardize_address(ev.account_address)
              n == SequenceNumberOf(ev).val
          IN \A r \in TransactionsAt(pre, w, n) :
                r.status = Pending =>
                  /\ Cardinality(db.transactions) = Cardinality(pre.transactions)
                  /\ \E r2 \in db.transactions :
                      /\ TransactionsAt(db, w, n) = {r2}
                      /\ r2.status = Success
                      /\ r2.executor = ev.executor
                      /\ r2.executed_at = Some(last.version)
                      /\ (IsSome(ev.transaction_payload)
                          /\ Get(ev.transaction_payload).kind = "ok")
                         => r2.payload = DecodedPayload(Get(ev.transaction_payload).id)
                      /\ r2 = [r EXCEPT !.status = r2.status,
                                        !.executor = r2.executor,
                                        !.executed_at = r2.executed_at,
                                        !.payload = r2.payload]

\* C2 witness: a Succeeded event has turned a Pending row without executor
\* into a Success row with another payload
CreateThenSucceededSeen ==
    /\ LastEvent(TransactionExecutionSucceededEvent)
    /\ \E r \in pre.transactions, r2 \in db.transactions :
        /\ TransactionKey(r, r2)
        /\ r.status = Pending /\ r.executor = None /\ r.executed_at = None
        /\ r2.status = Success /\ IsSome(r2.executor) /\ IsSome(r2.executed_at)
        /\ r2.payload # r.payload /\ r2.payload.k = "decoded"

\* C5: a VoteEvent whose (wallet_address, transaction_sequence,
\* voter_address) already has one Vote row leaves one row for the triple,
\* with the event's approved flag as value and the transaction timestamp as
\* created_at, and adds no row to the table
VoteOverwrites ==
    (LastEvent(VoteEvent) /\ HasSequenceNumber(last.entry.ev))
    => LET ev == last.entry.ev
           w == standardize_address(ev.account_address)
           n == SequenceNumberOf(ev).val
           v == Get(ev.owner)
       IN Cardinality(VotesAt(pre, w, n, v)) = 1
          => /\ VotesAt(db, w, n, v) =
                  {[wallet_address |-> w, transaction_sequence |-> n,
                    voter_address |-> v, value |-> Get(ev.approved),
                    created_at |-> last.version]}
             /\ Cardinality(db.votes) = Cardinality(pre.votes)
             /\ \A r \in pre.votes : r \notin VotesAt(pre, w, n, v) => r \in db.votes

\* C5 witness: a VoteEvent has replaced the value and created_at of the row
\* of its triple
VoteOverwritesSeen ==
    /\ LastEvent(VoteEvent)
    /\ \E r \in pre.votes, r2 \in db.votes :
        /\ VoteKey(r, r2)
        /\ r.value # r2.value
        /\ r.created_at # r2.created_at
        /\ r2.value = Get(last.entry.ev.approved)

\* C6: the statement of a RemoveOwnersEvent on wallet W naming owners S
\* deletes the owners_wallets rows (o, W) with o in S and no other row, and
\* changes no other table; no statement at all deletes an Owner row
RemoveOwnersFrame ==
    /\ \A r \in pre.owners : \E r2 \in db.owners : OwnerKey(r, r2)
    /\ LastEvent(RemoveOwnersEvent)
       => LET ev == last.entry.ev
              w == standardize_address(ev.account_address)
              S == Range(Get(ev.owners_removed))
          IN /\ db.owners_wallets =
                  {r \in pre.owners_wallets :
                      ~(r.wallet_address = w /\ r.owner_address \in S)}
             /\ db.owners = pre.owners
             /\ db.wallets = pre.wallets
             /\ db.transactions = pre.transactions
             /\ db.votes = pre.votes

\* C6 witness: a RemoveOwnersEvent has deleted a membership of an owner who
\* has an Owner row and is a member of another wallet as well
RemoveOwnersFrameSeen ==
    /\ LastEvent(RemoveOwnersEvent)
    /\ \E r \in pre.owners_wallets :
        /\ r \notin db.owners_wallets
        /\ \E r2 \in db.owners_wallets :
            r2.owner_address = r.owner_address /\ r2.wallet_address # r.wallet_address
        /\ \E r3 \in db.owners : r3.owner_address = r.owner_address

LastWriteResourceDone ==
    /\ last.entry.e = "change"
    /\ last.entry.wr.type_str = MultisigAccountType
    /\ last.fin

WalletAndOwnerRows(wr) ==
    /\ \E r \in db.wallets :
        /\ {x \in db.wallets : x.wallet_address = wr.address} = {r}
        /\ r.required_signatures = wr.data.num_signatures_required
    /\ \A o \in Range(wr.data.owners) :
        /\ Cardinality({x \in db.owners : x.owner_address = o}) = 1
        /\ Cardinality({x \in db.owners_wallets :
                          x.owner_address = o /\ x.wallet_address = wr.address}) = 1

\* C7 as stated: after process_write_resource of a MultisigAccount write the
\* Wallet row has the parsed required_signatures, every parsed owner has one
\* Owner row and one owners_wallets row, and the owners_wallets rows of the
\* wallet are exactly the parsed owners
WriteResourceExactOwners ==
    LastWriteResourceDone
    => /\ WalletAndOwnerRows(last.entry.wr)
       /\ OwnersOfWallet(db, last.entry.wr.address) = Range(last.entry.wr.data.owners)

\* C7 amended: ... and the owners_wallets rows of the wallet are the rows it
\* had before the write together with one row per parsed owner (the parsed
\* owners exactly, when the wallet had no row before)
WriteResourceAddsOwners ==
    LastWriteResourceDone
    => /\ WalletAndOwnerRows(last.entry.wr)
       /\ OwnersOfWallet(db, last.entry.wr.address) =
              OwnersOfWallet(pre, last.entry.wr.address)
              \cup Range(last.entry.wr.data.owners)
       /\ \A r \in pre.owners_wallets : r \in db.owners_wallets

\* C7 witness: a MultisigAccount write has been applied for a wallet that
\* has a member the write does not list
WriteResourceAddsOwnersSeen ==
    /\ LastWriteResourceDone
    /\ \E o \in OwnersOfWallet(pre, last.entry.wr.address) :
        o \notin Range(last.entry.wr.data.owners)
    /\ \E o \in Range(last.entry.wr.data.owners) :
        o \in OwnersOfWallet(db, last.entry.wr.address)
    /\ \E r \in db.wallets :
        /\ r.wallet_address = last.entry.wr.address
        /\ r.required_signatures = last.entry.wr.data.num_signatures_required

\* a CreateTransactionEvent with sequence_number, creator and a first vote
WellFormedCreate(ev) ==
    /\ HasSequenceNumber(ev)
    /\ IsSome(ev.creator)
    /\ IsSome(ev.votes) /\ Get(ev.votes) # <<>>
    /\ IsSome(Get(ev.votes)[1].key) /\ IsSome(Get(ev.votes)[1].value)

\* C8: a CreateTransactionEvent on wallet W with sequence_number n and
\* creator c, for a key (W, n) that has no row yet, stores one Transaction row
\* (W, n) with status Pending, initiated_by c, no executor and no executed_at,
\* and then one Vote row (W, n, voter) of the first vote of its votes data,
\* with that vote's value
CreateStoresTransactionAndVote ==
    (LastEvent(CreateTransactionEvent) /\ WellFormedCreate(last.entry.ev))
    => LET ev == last.entry.ev
           w == standardize_address(ev.account_address)
           n == SequenceNumberOf(ev).val
           first_vote == Get(ev.votes)[1]
           v == standardize_address(Get(first_vote.key))
       IN /\ (last.op.op = "insert_transactions" /\ TransactionsAt(pre, w, n) = {})
             => /\ ~last.fin
                /\ \E r \in db.transactions :
                    /\ TransactionsAt(db, w, n) = {r}
                    /\ r.status = Pending
                    /\ r.initiated_by = Get(ev.creator)
                    /\ r.executor = None
                    /\ r.executed_at = None
          /\ last.fin
             => /\ last.op.op = "insert_votes"
                /\ \E r \in db.transactions :
                    /\ TransactionsAt(db, w, n) = {r}
                    /\ r.status = Pending
                    /\ r.initiated_by = Get(ev.creator)
                /\ \E r \in db.votes :
                    /\ VotesAt(db, w, n, v) = {r}
                    /\ r.value = Get(first_vote.value)

\* C8 witness: the handler of a CreateTransactionEvent has returned, its key
\* holds a Pending row without executor and its first vote is stored
CreateStoresTransactionAndVoteSeen ==
    /\ LastEvent(CreateTransactionEvent)
    /\ last.fin /\ last.op.op = "insert_votes"
    /\ \E r \in db.transactions, v \in db.votes :
        /\ r.wallet_address = v.wallet_address
        /\ r.sequence_number = v.transaction_sequence
        /\ r.status = Pending /\ r.executor = None /\ r.executed_at = None
        /\ r.initiated_by = Get(last.entry.ev.creator)
        /\ v.created_at = last.version

\* ---------------------------------------------- batches the chain can emit
TerminalEventTypes ==
    {TransactionExecutionSucceededEvent, TransactionExecutionFailedEvent,
     ExecuteRejectedTransactionEvent}

SequencedEventTypes == TerminalEventTypes \cup {CreateTransactionEvent, VoteEvent}

KeyOf(ev) == <<standardize_address(ev.account_address), SequenceNumberOf(ev).val>>

WellFormedEvent(ev) ==
    CASE ev.type_str = CreateTransactionEvent -> WellFormedCreate(ev)
      [] ev.type_str = VoteEvent ->
           HasSequenceNumber(ev) /\ IsSome(ev.owner) /\ IsSome(ev.approved)
      [] ev.type_str \in TerminalEventTypes ->
           HasSequenceNumber(ev) /\ IsSome(ev.executor)
      [] ev.type_str = AddOwnersEvent -> ev.json_ok /\ IsSome(ev.owners_added)
      [] ev.type_str = RemoveOwnersEvent -> ev.json_ok /\ IsSome(ev.owners_removed)
      [] OTHER -> TRUE

\* every event is well formed, a sequence number of a wallet is created once,
\* before its votes and its one terminal event
ValidChain(l) ==
    LET E == {i \in 1..Len(l) : l[i].x.e = "event"}
        S == {i \in E : l[i].x.ev.type_str \in SequencedEventTypes}
        Is(i, types) == l[i].x.ev.type_str \in types
        Same(i, j) == KeyOf(l[i].x.ev) = KeyOf(l[j].x.ev)
    IN /\ \A i \in E : WellFormedEvent(l[i].x.ev)
       /\ \A i, j \in S :
            (i < j /\ Same(i, j)) =>
               /\ ~Is(j, {CreateTransactionEvent})
               /\ ~Is(i, TerminalEventTypes)
       /\ \A j \in S :
            ~Is(j, {CreateTransactionEvent}) =>
               \E i \in S : i < j /\ Same(i, j) /\ Is(i, {CreateTransactionEvent})

UniqueKeys(d) ==
    /\ \A r1, r2 \in d.wallets : WalletKey(r1, r2) => r1 = r2
    /\ \A r1, r2 \in d.owners : OwnerKey(r1, r2) => r1 = r2
    /\ \A r1, r2 \in d.owners_wallets : OwnerWalletKey(r1, r2) => r1 = r2
    /\ \A r1, r2 \in d.transactions : TransactionKey(r1, r2) => r1 = r2
    /\ \A r1, r2 \in d.votes : VoteKey(r1, r2) => r1 = r2

\* C1: when the second processing of a batch returns, no table has two rows
\* of one key and the tables equal those the first processing left
ReprocessingChangesNothing ==
    (run[1] = 2 /\ pc[1] = "ok" /\ ValidChain(log[1]))
    => UniqueKeys(db) /\ db = snap

\* C3: a Transaction row whose status is Success, Failed or Rejected keeps
\* that status under every later statement, also when its batch is processed
\* again
TerminalStatusStays ==
    ValidChain(log[1])
    => \A r \in pre.transactions :
          r.status \in Terminal
          => \E r2 \in db.transactions : TransactionKey(r, r2) /\ r2.status = r.status

RECURSIVE ApplyOps(_, _)
ApplyOps(d, ops) ==
    IF ops = <<>> THEN d ELSE ApplyOps(ApplyOp(d, Head(ops)), Tail(ops))

\* the tables after one uninterrupted processing of batch l on tables d
RECURSIVE RunBatch(_, _, _, _)
RunBatch(d, l, i, version) ==
    IF i > Len(l) THEN d
    ELSE IF l[i].x.e = "txn" THEN RunBatch(d, l, i + 1, l[i].x.version)
    ELSE RunBatch(ApplyOps(d, PlanOfEntry(l[i].x, version, l[i].at).ops),
                  l, i + 1, version)

\* C4: when two concurrent instances have both returned, the tables are those
\* of processing the first batch and then the second
ConcurrentAsInVersionOrder ==
    (pc[1] = "ok" /\ pc[2] = "ok" /\ ValidChain(log[1] \o log[2]))
    => db = RunBatch(RunBatch(EmptyDb, log[1], 1, 0), log[2], 1, 0)

\* C9: process_transactions of a batch with transactions never returns an
\* error and never panics (no statement is refused in this specification, so
\* an event body is the only cause there is)
MalformedEventNeverAborts ==
    \A p \in Procs : pc[p] \in {"err", "panic"} => ntx[p] = 0

\* C10: a statement issued for an event whose body lacks sequence_number
\* changes no Transaction row and no Vote row
MissingSequenceNumberSkipped ==
    (/\ last.entry.e = "event"
     /\ last.entry.ev.type_str \in SequencedEventTypes
     /\ ~(last.entry.ev.json_ok /\ IsSome(last.entry.ev.sequence_number)))
    => db.transactions = pre.transactions /\ db.votes = pre.votes

\* ------------------------------------------------ what the loops pass over
\* an event of a type the match has no arm for, a resource write of another
\* type than MultisigAccount
Unhandled(entry) ==
    \/ entry.e = "event" /\ entry.ev.type_str \notin HandledEventTypes
    \/ entry.e = "change" /\ entry.wr.type_str # MultisigAccountType

\* C11: from the moment the loop reaches an event of an unhandled type or a
\* resource write of another type than MultisigAccount until it moves on, the
\* five tables are as they were, no statement is outstanding and
\* process_transactions has neither failed nor panicked
UnhandledTypesIgnored ==
    (took.p # 0 /\ Unhandled(took.entry))
    => /\ db = took.db
       /\ pending[took.p] = <<>>
       /\ handling[took.p] = NoEntry
       /\ pc[took.p] \in {"run", "ok"}

\* C11 witness: a resource write of another type was passed over when the
\* tables held rows, and the batch has returned its summary
UnhandledTypesIgnoredSeen ==
    /\ took.p # 0
    /\ took.entry.e = "change"
    /\ took.entry.wr.type_str # MultisigAccountType
    /\ db.wallets # {} /\ db.owners_wallets # {}
    /\ pc[took.p] = "ok"

\* C12: process_transactions returns its summary only when the store has
\* refused none of the statements of the batch
StorageFailureSurfaced ==
    \A p \in Procs : pc[p] = "ok" => failed[p] = 0

\* batch l with clock readings f in place of those of its first handling
Restamped(l, f) == [i \in 1..Len(l) |-> [x |-> l[i].x, at |-> f[i]]]

\* the clock readings an uninterrupted processing of l can take
ClockReadings(l) ==
    {f \in [1..Len(l) -> 1..MaxClock] : \A i, j \in 1..Len(l) : i <= j => f[i] <= f[j]}

\* C13: when a batch that stopped at a refused statement has been processed
\* again from its first transaction and has returned, the tables are those of
\* one uninterrupted processing of the batch, whatever the clock showed
\* during it
RetryEndsAsUninterrupted ==
    (run[1] = 2 /\ pc[1] = "ok" /\ failed[1] > 0 /\ ValidChain(log[1]))
    => \E f \in ClockReadings(log[1]) :
          db = RunBatch(EmptyDb, Restamped(log[1], f), 1, 0)

\* C14: the statement of a terminal event keeps the number of Transaction
\* rows and leaves the other tables alone; in every row it leaves
\* initiated_by, payload_hash, transaction_hash and created_at as they were,
\* the payload too when the event is Rejected or Failed, the error too when
\* it is Rejected or Succeeded, and no column that held a value is NULL
\* afterwards
TerminalUpdateFrame ==
    (/\ last.entry.e = "event"
     /\ last.entry.ev.type_str \in TerminalEventTypes
     /\ ~last.refused)
    => LET t == last.entry.ev.type_str IN
       /\ [db EXCEPT !.transactions = {}] = [pre EXCEPT !.transactions = {}]
       /\ Cardinality(db.transactions) = Cardinality(pre.transactions)
       /\ \A r \in pre.transactions : \E r2 \in db.transactions :
            /\ TransactionKey(r, r2)
            /\ r2.initiated_by = r.initiated_by
            /\ r2.payload_hash = r.payload_hash
            /\ r2.transaction_hash = r.transaction_hash
            /\ r2.created_at = r.created_at
            /\ t # TransactionExecutionSucceededEvent => r2.payload = r.payload
            /\ t # TransactionExecutionFailedEvent => r2.error = r.error
            /\ r.payload # JsonNull => r2.payload # JsonNull
            /\ r.executor # None => r2.executor # None
            /\ r.executed_at # None => r2.executed_at # None
            /\ r.error # None => r2.error # None

\* C14 witness: an ExecuteRejectedTransactionEvent without executor has set
\* Rejected on a row that kept its payload, its error and its executor
TerminalUpdateFrameSeen ==
    /\ LastEvent(ExecuteRejectedTransactionEvent)
    /\ ~IsSome(last.entry.ev.executor)
    /\ \E r \in pre.transactions, r2 \in db.transactions :
        /\ TransactionKey(r, r2)
        /\ r.status # Rejected /\ r2.status = Rejected
        /\ r.payload # JsonNull /\ r2.payload = r.payload
        /\ r.error # None /\ r2.error = r.error
        /\ r.executor # None /\ r2.executor = r.executor

\* C15: when the wallet insert of a MultisigAccount write meets a Wallet row
\* of its address, the address has one row afterwards, with the
\* required_signatures and the metadata parsed from this write
WalletRefreshed ==
    (/\ last.entry.e = "change"
     /\ last.op.op = "insert_wallets"
     /\ ~last.refused
     /\ \E r \in pre.wallets : r.wallet_address = last.entry.wr.address)
    => LET wr == last.entry.wr
           x == extract_multisig_wallet_data_from_write_resource(wr.data)
       IN \E r2 \in db.wallets :
            /\ {r \in db.wallets : r.wallet_address = wr.address} = {r2}
            /\ r2.required_signatures = x.required_signatures
            /\ r2.metadata = Some(x.metadata)

\* C16: the statement of a VoteEvent whose (wallet_address,
\* transaction_sequence) has no Transaction row stores the Vote row of the
\* event and creates no Transaction row, and process_transactions goes on
\* without error; no statement at all removes a Vote row, so the row is there
\* when the Transaction row is created
OrphanVoteStored ==
    /\ \A r \in pre.votes : \E r2 \in db.votes : VoteKey(r, r2)
    /\ (/\ LastEvent(VoteEvent)
        /\ ~last.refused
        /\ TransactionsAt(pre, standardize_address(last.entry.ev.account_address),
                           SequenceNumberOf(last.entry.ev).val) = {})
       => LET ev == last.entry.ev
              w == standardize_address(ev.account_address)
              n == SequenceNumberOf(ev).val
          IN /\ VotesAt(db, w, n, Get(ev.owner)) =
                  {[wallet_address |-> w, transaction_sequence |-> n,
                    voter_address |-> Get(ev.owner), value |-> Get(ev.approved),
                    created_at |-> last.version]}
             /\ db.transactions = pre.transactions
             /\ (took.p = last.p /\ took.entry = last.entry)
                => pc[last.p] \in {"run", "ok"}

\* C16 witness: a Vote row stored without its Transaction row is still there,
\* unchanged, when a CreateTransactionEvent has stored the Transaction row
OrphanVoteStoredSeen ==
    /\ LastEvent(CreateTransactionEvent)
    /\ last.op.op = "insert_transactions"
    /\ \E v \in pre.votes :
        /\ TransactionsAt(pre, v.wallet_address, v.transaction_sequence) = {}
        /\ TransactionsAt(db, v.wallet_address, v.transaction_sequence) # {}
        /\ v \in db.votes

\* C17: when a well-formed CreateTransactionEvent stores its Transaction row
\* for a wallet whose MultisigAccount write was applied before (the wallets
\* table has a row of that account), the wallets table has a row with the
\* wallet_address of the Transaction row
TransactionHasWallet ==
    (/\ LastEvent(CreateTransactionEvent)
     /\ WellFormedCreate(last.entry.ev)
     /\ last.op.op = "insert_transactions"
     /\ ~last.refused
     /\ \E r \in pre.wallets :
           standardize_address(r.wallet_address)
             = standardize_address(last.entry.ev.account_address))
    => \A t \in db.transactions :
          t.wallet_address = standardize_address(last.entry.ev.account_address)
          => \E r \in db.wallets : r.wallet_address = t.wallet_address

\* C18: the loops move on to a transaction, a resource write or an event
\* only when every statement of the handler before has reached the store;
\* the statements outstanding are those of the entry reached last, the last
\* statement sent belongs to that entry or to one before it, and its
\* transaction is not later than the one the loop is in
OneHandlerAtATime ==
    /\ ~took.busy
    /\ \A p \in Procs :
         pending[p] # <<>> => took.p = p /\ handling[p] = took.entry
    /\ last.p # 0 => last.version <= txn[last.p].version
    /\ (last.p # 0 /\ ~last.fin) => last.entry = handling[last.p]

\* C18 witness: the three statements of a resource write have reached the
\* store, the loop has moved on to an event of the next transaction and the
\* first statement of its handler is outstanding
OneHandlerAtATimeSeen ==
    /\ took.entry.e = "event"
    /\ pending[took.p] # <<>>
    /\ last.p = took.p
    /\ last.entry.e = "change"
    /\ last.fin /\ last.op.op = "insert_owner_wallets"
    /\ last.version < txn[took.p].version

\* C19: from the moment the loop reaches a transaction without txn_data, of
\* another type than user or without request until it reaches the next one,
\* the five tables are as they were, no handler is entered for what the
\* transaction carries and process_transactions has neither failed nor
\* panicked; resource writes and events are handled for user transactions
\* only
SkippedTransactionInert ==
    /\ (took.p # 0 /\ took.entry.e = "txn" /\ took.entry.kind # "user")
       => /\ db = took.db
          /\ pending[took.p] = <<>>
          /\ handling[took.p] = NoEntry
          /\ pc[took.p] \in {"run", "ok"}
    /\ (took.p # 0 /\ took.entry.e \in {"change", "event"})
       => txn[took.p].kind = "user"

\* C19 witness: after a user transaction has stored rows the loop has passed
\* over a transaction of another type that carries a MultisigAccount write,
\* and the batch has returned its summary
SkippedTransactionInertSeen ==
    /\ took.p # 0
    /\ took.entry.e = "txn"
    /\ took.entry.kind = "nonuser"
    /\ took.entry.items # <<>>
    /\ took.entry.items[1].e = "change"
    /\ db.votes # {}
    /\ db.wallets = {}
    /\ pc[took.p] = "ok"

\* C20: get_conn returns only with a connection; every error of pool.get()
\* is counted once in UNABLE_TO_GET_CONNECTION_COUNT (an error whose arm has
\* not run yet is not counted yet) and every connection returned once in
\* GOT_CONNECTION_COUNT; when the store is reachable from some moment on,
\* every call of get_conn returns; a call that awaits pool.get() while the
\* store stays unreachable for good never returns
GetConnRetriesUntilConnected ==
    /\ [](\A c \in Callers :
            /\ conn_pc[c] = "returned" => conn_ret[c] = "conn"
            /\ conn_pc[c] \in {"get", "ok", "err"} => conn_ret[c] = "none")
    /\ [](UNABLE_TO_GET_CONNECTION_COUNT
            + Cardinality({c \in Callers : conn_pc[c] = "err"}) = timeouts)
    /\ [](GOT_CONNECTION_COUNT
            + Cardinality({c \in Callers : conn_pc[c] \in {"get", "ok", "err"}}) = calls)
    /\ \A c \in Callers :
          (<>[]reachable) => ((conn_pc[c] = "get") ~> (conn_pc[c] = "returned"))
    /\ \A c \in Callers :
          []((conn_pc[c] = "get" /\ []~reachable) => [](conn_pc[c] # "returned"))

\* C20 witness: a call of get_conn has returned a connection after two
\* errors of pool.get() were counted
GetConnRetriesUntilConnectedSeen ==
    /\ conn_pc[1] = "returned"
    /\ conn_ret[1] = "conn"
    /\ conn_pc[2] = "idle"
    /\ calls = 1
    /\ UNABLE_TO_GET_CONNECTION_COUNT = 2
    /\ GOT_CONNECTION_COUNT = 1

\* ----------------------------------------------------------- utils::mapper
PrimitiveLayout ==
    [address |-> "Address", bool |-> "Bool", u8 |-> "U8", u16 |-> "U16",
     u32 |-> "U32", u64 |-> "U64", u128 |-> "U128", u256 |-> "U256",
     signer |-> "Signer"]

\* name<...>: the name, an opening bracket and a closing bracket at the end
IsGeneric(s, name) == Len(s) >= 3 /\ s[1] = name /\ s[2] = "<" /\ s[Len(s)] = ">"
TypeArgument(s) == SubSeq(s, 3, Len(s) - 1)
PrimitiveKey(s) == IF s = <<"&signer">> THEN "signer" ELSE s[1]
IsPrimitive(s) == Len(s) = 1 /\ (s = <<"&signer">> \/ s[1] \in DOMAIN PrimitiveLayout \ {"signer"})

\* the layout the grammar of the claim gives a type string
RECURSIVE ClaimedLayout(_)
ClaimedLayout(s) ==
    IF IsPrimitive(s) THEN Some(Prim(PrimitiveLayout[PrimitiveKey(s)]))
    ELSE IF s = <<StringName>> THEN Some(VectorOf(Prim("U8")))
    ELSE IF IsGeneric(s, ObjectName) THEN Some(Prim("Address"))
    ELSE IF IsGeneric(s, "vector") \/ IsGeneric(s, OptionName)
    THEN LET element == ClaimedLayout(TypeArgument(s)) IN
         IF IsSome(element) THEN Some(VectorOf(Get(element))) ELSE None
    ELSE None

\* the same grammar with 0x1::string::String as the struct of one byte
\* vector, and 0x1::object::Object alone or followed by "<" and anything as
\* an address
RECURSIVE GrammarLayout(_)
GrammarLayout(s) ==
    IF IsPrimitive(s) THEN Some(Prim(PrimitiveLayout[PrimitiveKey(s)]))
    ELSE IF s = <<StringName>> THEN Some(StructOf(<<VectorOf(Prim("U8"))>>))
    ELSE IF s = <<ObjectName>> \/ StartsWith(s, <<ObjectName, "<">>)
    THEN Some(Prim("Address"))
    ELSE IF IsGeneric(s, "vector") \/ IsGeneric(s, OptionName)
    THEN LET element == GrammarLayout(TypeArgument(s)) IN
         IF IsSome(element) THEN Some(VectorOf(Get(element))) ELSE None
    ELSE None

MapTypeReturned == call.fn = "map_string_to_move_type" /\ ret # NotReturned

\* C25 as stated: map_string_to_move_type returns for every type string, and
\* returns the layout of the claim's grammar: the primitive layouts,
\* Vector(layout(T)) for vector<T> and for Option<T> exactly when T has a
\* layout, a byte vector for String, Address for Object<...>, no layout for
\* every other string
MapperAgreesWithClaimedGrammar ==
    MapTypeReturned => ret.v = ClaimedLayout(call.arg)

\* C25 amended: as above, but String maps to the struct layout of one byte
\* vector, and 0x1::object::Object alone, and any string that starts with
\* 0x1::object::Object<, map to the address layout
MapperAgreesWithGrammar ==
    MapTypeReturned => ret.v = GrammarLayout(call.arg)

\* C25 witness: Option<vector<u8>> has been mapped to a vector of byte vectors
MapperAgreesWithGrammarSeen ==
    /\ MapTypeReturned
    /\ call.arg = <<OptionName, "<", "vector", "<", "u8", ">", ">">>
    /\ ret.v = Some(VectorOf(VectorOf(Prim("U8"))))

Digit(n, i) == IF i <= Len(n) THEN n[i] ELSE 0

\* r is n mod 2^64: r is below 2^64 and n - r is a multiple of 2^64, that
\* is, the eight low bytes of n are those of r
IsRemainderMod64(r, n) ==
    /\ Len(r) <= 8
    /\ r = TrimZeros(r)
    /\ \A i \in 1..8 : Digit(r, i) = Digit(n, i)

FlattenReturned == call.fn = "parse_nested_move_values" /\ ret # NotReturned

\* C26: parse_nested_move_values returns for every numeric value a JSON
\* number: the value itself for u8, u16, u32 and u64, the value mod 2^64 for
\* u128 and u256
NumbersFlattened ==
    (FlattenReturned /\ call.arg.t \in Numeric) =>
        /\ ret.v.k = "number"
        /\ call.arg.t \in {"U8", "U16", "U32", "U64"} =>
              /\ ret.v.p = TrimZeros(ret.v.p)
              /\ \A i \in 1..ByteWidth[call.arg.t] :
                    Digit(ret.v.p, i) = call.arg.n[i]
              /\ Len(ret.v.p) <= ByteWidth[call.arg.t]
        /\ call.arg.t \in {"U128", "U256"} =>
              IsRemainderMod64(ret.v.p, call.arg.n)

\* C26 witness: a u128 of 2^64 + 1 has been flattened to the number 1
NumbersFlattenedSeen ==
    /\ FlattenReturned
    /\ call.arg.t = "U128"
    /\ call.arg.n = [i \in 1..16 |-> IF i \in {1, 9} THEN 1 ELSE 0]
    /\ ret.v = JsonNumber(<<1>>)

\* is the byte a continuation byte of UTF-8
Cont(b) == b >= 128 /\ b <= 191

\* std::str::from_utf8 succeeds on the bytes
RECURSIVE IsUtf8(_)
IsUtf8(bs) ==
    IF bs = <<>> THEN TRUE
    ELSE LET b == bs[1]
             n == IF b <= 127 THEN 1
                  ELSE IF b >= 194 /\ b <= 223 THEN 2
                  ELSE IF b >= 224 /\ b <= 239 THEN 3
                  ELSE IF b >= 240 /\ b <= 244 THEN 4
                  ELSE 0
         IN
         /\ n > 0
         /\ Len(bs) >= n
         /\ \A i \in 2..n : Cont(bs[i])
         /\ b = 224 => bs[2] >= 160
         /\ b = 237 => bs[2] <= 159
         /\ b = 240 => bs[2] >= 144
         /\ b = 244 => bs[2] <= 143
         /\ IsUtf8(SubSeq(bs, n + 1, Len(bs)))

IsByteVector(v) ==
    v.t = "Vector" /\ v.vec # <<>> /\ \A i \in 1..Len(v.vec) : v.vec[i].t = "U8"
BytesOf(v) == [i \in 1..Len(v.vec) |-> v.vec[i].n[1]]

\* the JSON value shows every byte vector inside the Move value as the claim
\* says: as its text when it is UTF-8, else as the array of its bytes
RECURSIVE ShowsByteVectors(_, _)
ShowsByteVectors(v, json) ==
    IF IsByteVector(v)
    THEN IF IsUtf8(BytesOf(v))
         THEN json = JsonString(BytesOf(v))
         ELSE /\ json.k = "array"
              /\ Len(json.p) = Len(v.vec)
              /\ \A i \in 1..Len(json.p) : json.p[i] = JsonNumber(<<BytesOf(v)[i]>>)
    ELSE IF v.t = "Vector"
    THEN /\ json.k = "array"
         /\ Len(json.p) = Len(v.vec)
         /\ \A i \in 1..Len(v.vec) : ShowsByteVectors(v.vec[i], json.p[i])
    ELSE TRUE

\* C24: in the JSON value parse_nested_move_values returns, every vector of
\* u8, at any depth, whose bytes are valid UTF-8 is the string of that text,
\* and every other one is the array of its byte values
ByteVectorsAsText ==
    FlattenReturned => ShowsByteVectors(call.arg, ret.v)

ParseArgsReturned == call.fn = "parse_function_args" /\ ret # NotReturned

\* the parameters of the function called, the signer references left out
ParamsOfCall ==
    LET found == FindFunction(call.arg.function_details, call.arg.function) IN
    WithoutSigner(Get(Get(found).params))

HasParams ==
    /\ IsSome(call.arg.function_details.exposed_functions)
    /\ IsSome(FindFunction(call.arg.function_details, call.arg.function))
    /\ IsSome(Get(FindFunction(call.arg.function_details, call.arg.function)).params)

Undecodable(param, arg) ==
    \/ ~IsSome(map_string_to_move_type(param))
    \/ ~simple_deserialize(arg, Get(map_string_to_move_type(param))).ok

\* C22: when the counts of parameters and arguments agree, parse_function_args
\* succeeds; an argument whose type has no layout or whose bytes do not
\* deserialize is null, and every other argument has the value its own
\* bytes decode to
UndecodableArgumentIsNull ==
    (ParseArgsReturned /\ HasParams /\ Len(ParamsOfCall) = Len(call.arg.args)) =>
        /\ ret.v.ok
        /\ Len(ret.v.val) = Len(call.arg.args)
        /\ \A i \in 1..Len(call.arg.args) :
              ret.v.val[i] =
                IF Undecodable(ParamsOfCall[i], call.arg.args[i]) THEN JsonNull
                ELSE parse_nested_move_values(
                       simple_deserialize(call.arg.args[i],
                           Get(map_string_to_move_type(ParamsOfCall[i]))).val)

\* ------------------------------------------------------------ utils::utils
Decoding == call.fn = "process_entry_function"
Decoded == Decoding /\ fetch_pc = "done"
PrimaryAnswer == requests[1].response
\* the response the function details were taken from
UsedAnswer == requests[Len(requests)].response

\* C21: the secondary network is contacted exactly when the primary
\* network's response was received, parsed as JSON and contains
\* module_not_found, and then once; when the primary request fails in
\* transport or its body is not JSON, process_entry_function returns that
\* failure and the secondary network is not contacted
SecondaryOnlyOnModuleNotFound ==
    Decoding =>
        /\ Len(requests) <= 2
        /\ \A i \in 1..Len(requests) :
              requests[i].network = (IF i = 1 THEN "mainnet" ELSE "testnet")
        /\ fetch_pc \in {"secondary", "done"} =>
              (Len(requests) = 2 <=>
                 (PrimaryAnswer.kind = "json"
                  /\ "module_not_found" \in StringsOf(PrimaryAnswer.body)))
        /\ (fetch_pc \in {"secondary", "done"} /\ PrimaryAnswer.kind # "json") =>
              /\ fetch_pc = "done"
              /\ ret = Returned(Err(PrimaryAnswer.kind))

\* C21 witness: the primary network answered module_not_found, the secondary
\* network was asked once and its ABI document decoded the payload
SecondaryOnlyOnModuleNotFoundSeen ==
    /\ Decoded
    /\ Len(requests) = 2
    /\ PrimaryAnswer = Body(Some("module_not_found"), None)
    /\ UsedAnswer.kind = "json"
    /\ ret.v.ok

UsedFunction == FindFunction(UsedAnswer.body, call.arg.function)

CountsDiffer ==
    /\ UsedAnswer.kind = "json"
    /\ IsSome(UsedAnswer.body.exposed_functions)
    /\ IsSome(UsedFunction)
    /\ IsSome(Get(UsedFunction).params)
    /\ Len(WithoutSigner(Get(Get(UsedFunction).params))) # Len(call.arg.args)

\* C23: when the function's parameters without the &signer ones are not as
\* many as the argument byte arrays, process_entry_function succeeds and the
\* parsed arguments are the empty list
MismatchGivesEmptyArgs ==
    (Decoded /\ CountsDiffer) =>
        /\ ret.v.ok
        /\ ret.v.val.p.EntryFunction.p.parsed_args = JsonArray(<<>>)

\* C23 witness: parameters (&signer, u8) met two arguments and the result
\* carries no parsed argument
MismatchGivesEmptyArgsSeen ==
    /\ Decoded
    /\ CountsDiffer
    /\ Get(UsedFunction).params = Some(<<<<"&signer">>, <<"u8">>>>)
    /\ Len(call.arg.args) = 2
    /\ ret.v.ok
    /\ ret.v.val.p.EntryFunction.p.parsed_args = JsonArray(<<>>)

\* C27: a successful process_entry_function returns the JSON of the payload,
\* with module, function, ty_args and args as serialized from the payload,
\* and with parsed_args, the parsed arguments, as its only addition
PayloadKeptWithParsedArgs ==
    (Decoded /\ ret.v.ok) =>
        LET result == ret.v.val
            original == to_value(call.arg).p.EntryFunction.p
        IN
        /\ result.k = "object"
        /\ DOMAIN result.p = {"EntryFunction"}
        /\ result.p.EntryFunction.k = "object"
        /\ DOMAIN result.p.EntryFunction.p = DOMAIN original \cup {"parsed_args"}
        /\ \A key \in DOMAIN original : result.p.EntryFunction.p[key] = original[key]
        /\ result.p.EntryFunction.p.args = vec_bytes(call.arg.args)
        /\ result.p.EntryFunction.p.parsed_args =
              JsonArray(parse_function_args(UsedAnswer.body, call.arg.args, call.arg.function).val)

\* C27 witness: the argument 1 of a u8 parameter has been attached to the
\* payload
PayloadKeptWithParsedArgsSeen ==
    /\ Decoded
    /\ ret.v.ok
    /\ call.arg.args = <<<<1>>>>
    /\ ret.v.val.p.EntryFunction.p.args = JsonArray(<<JsonArray(<<JsonNumber(<<1>>)>>)>>)
    /\ ret.v.val.p.EntryFunction.p.parsed_args = JsonArray(<<JsonNumber(<<1>>)>>)

\* ------------------------------------------------------- terminal events
\* the last statement is the update of an event of the type whose body
\* carries a sequence_number, and the Transaction row of the event exists
TerminalEventOnRow(t) ==
    /\ LastEvent(t)
    /\ ~last.refused
    /\ HasSequenceNumber(last.entry.ev)
    /\ TransactionsAt(pre, KeyOf(last.entry.ev)[1], KeyOf(last.entry.ev)[2]) # {}

\* the Transaction rows other than the one of the event are as they were
OtherRowsUntouched ==
    LET key == KeyOf(last.entry.ev)
        target(d) == TransactionsAt(d, key[1], key[2])
    IN
    /\ db.transactions \ target(db) = pre.transactions \ target(pre)
    /\ Cardinality(target(db)) = 1

\* C28: a TransactionExecutionFailedEvent whose Transaction row exists leaves
\* that row with status Failed, the executor of the event, executed_at the
\* transaction timestamp and error the execution_error of the event, and
\* leaves every other Transaction row as it was
FailedEventApplied ==
    TerminalEventOnRow(TransactionExecutionFailedEvent) =>
        LET ev == last.entry.ev IN
        /\ OtherRowsUntouched
        /\ \A r \in TransactionsAt(db, KeyOf(ev)[1], KeyOf(ev)[2]) :
              /\ r.status = Failed
              /\ IsSome(ev.executor) => r.executor = ev.executor
              /\ r.executed_at = Some(last.version)
              /\ r.error = Some(IF IsSome(ev.execution_error)
                                THEN ErrorJson(Get(ev.execution_error))
                                ELSE JsonNull)

\* C28 witness: of two Transaction rows of a wallet, the one of the event
\* has become Failed with the executor and the error of the event
FailedEventAppliedSeen ==
    /\ TerminalEventOnRow(TransactionExecutionFailedEvent)
    /\ Cardinality(pre.transactions) = 2
    /\ \E r \in pre.transactions, r2 \in db.transactions :
          /\ TransactionKey(r, r2)
          /\ r.status = Pending /\ r2.status = Failed
          /\ r.executor = None /\ r2.executor = last.entry.ev.executor
          /\ r2.error = Some(ErrorJson(Get(last.entry.ev.execution_error)))
          /\ r2.executed_at = Some(last.version)

\* C29: an ExecuteRejectedTransactionEvent whose Transaction row exists
\* leaves that row with status Rejected, the executor of the event and
\* executed_at the transaction timestamp, and leaves every other Transaction
\* row as it was
RejectedEventApplied ==
    TerminalEventOnRow(ExecuteRejectedTransactionEvent) =>
        LET ev == last.entry.ev IN
        /\ OtherRowsUntouched
        /\ \A r \in TransactionsAt(db, KeyOf(ev)[1], KeyOf(ev)[2]) :
              /\ r.status = Rejected
              /\ IsSome(ev.executor) => r.executor = ev.executor
              /\ r.executed_at = Some(last.version)

\* C29 witness: of two Transaction rows of a wallet, the one of the event
\* has become Rejected with the executor of the event
RejectedEventAppliedSeen ==
    /\ TerminalEventOnRow(ExecuteRejectedTransactionEvent)
    /\ Cardinality(pre.transactions) = 2
    /\ \E r \in pre.transactions, r2 \in db.transactions :
          /\ TransactionKey(r, r2)
          /\ r.status = Pending /\ r2.status = Rejected
          /\ r.executor = None /\ IsSome(r2.executor)
          /\ r2.executor = last.entry.ev.executor
          /\ r2.executed_at = Some(last.version)

\* ------------------------------------------------------- decode failures
\* the payload bytes of the event do not deserialize as a payload
\* ("unparsable") or process_entry_function fails on them ("fetch_fail": the
\* ABI fetch or the decoding of an argument)
FailsToDecode(ev) ==
    LET bytes == IF ev.type_str = CreateTransactionEvent THEN Field(ev, "payload")
                 ELSE IF ev.type_str = TransactionExecutionSucceededEvent
                 THEN Field(ev, "transaction_payload") ELSE None
    IN IsSome(bytes) /\ Get(bytes).kind \in {"fetch_fail", "unparsable"}

\* the handler of an event whose payload fails to decode returns Ok
DecodeFailureReturnsOk ==
    (/\ took.entry.e = "event"
     /\ FailsToDecode(took.entry.ev)
     /\ HasSequenceNumber(took.entry.ev))
    => pc[took.p] \notin {"err", "panic"}

\* the statements of an event whose payload fails to decode leave the rows
\* of the event
DecodeFailureKeepsRows ==
    (/\ last.entry.e = "event"
     /\ ~last.refused
     /\ FailsToDecode(last.entry.ev)
     /\ HasSequenceNumber(last.entry.ev))
    => LET ev == last.entry.ev
           w == KeyOf(ev)[1]
           n == KeyOf(ev)[2]
       IN
       /\ Dispatch(ev, last.version, now).res = "ok"
       /\ last.op.op = "insert_transactions" =>
             /\ Cardinality(TransactionsAt(db, w, n)) = 1
             /\ \A r \in TransactionsAt(db, w, n) :
                   /\ r.status = Pending
                   /\ r.created_at = last.version
             /\ db.transactions \ TransactionsAt(db, w, n)
                  = pre.transactions \ TransactionsAt(pre, w, n)
       /\ last.op.op = "insert_votes" =>
             LET first_vote == Get(ev.votes)[1] IN
             \E v \in VotesAt(db, w, n, standardize_address(Get(first_vote.key))) :
                 v.value = Get(first_vote.value)
       /\ (last.op.op = "update_status" /\ TransactionsAt(pre, w, n) # {}) =>
             /\ OtherRowsUntouched
             /\ \A r \in TransactionsAt(db, w, n) :
                   /\ r.status = Success
                   /\ r.executor = ev.executor
                   /\ r.executed_at = Some(last.version)

\* C30: an event whose payload fails to decode is handled as any other: the
\* handler returns Ok; the insert of a CreateTransactionEvent leaves the
\* Transaction row of (wallet_address, sequence_number), Pending, and its
\* vote insert leaves the initiator's Vote row; the update
\* of a TransactionExecutionSucceededEvent leaves the row with status
\* Success, the executor of the event and executed_at, and the other rows
\* as they were
DecodeFailureHarmless == DecodeFailureReturnsOk /\ DecodeFailureKeepsRows

\* C30 witness: a Transaction row created with a null payload, its decode
\* having failed, has become Success with the executor of an event whose
\* payload failed to decode too, its payload now the empty string
DecodeFailureHarmlessSeen ==
    /\ LastEvent(TransactionExecutionSucceededEvent)
    /\ ~last.refused
    /\ FailsToDecode(last.entry.ev)
    /\ \E r \in pre.transactions, r2 \in db.transactions :
          /\ TransactionKey(r, r2)
          /\ r.payload = JsonNull /\ r.status = Pending
          /\ r2.payload = JsonEmptyString /\ r2.status = Success
          /\ r2.executor = last.entry.ev.executor
    /\ \E v \in db.votes : v.transaction_sequence = KeyOf(last.entry.ev)[2]

\* ------------------------------------------------------------- memberships
OwnerWalletsAt(d, o, w) ==
    {r \in d.owners_wallets : r.owner_address = o /\ r.wallet_address = w}

\* C31: the statement of an AddOwnersEvent on wallet W leaves one
\* owners_wallets row (o, W) for each owner o of owners_added; every row the
\* table held is left as it was (its created_at too), a row it adds is a row
\* (o, W) of the event with the clock reading of the handler, and no other
\* table changes
AddOwnersApplied ==
    (LastEvent(AddOwnersEvent) /\ ~last.refused)
    => LET ev == last.entry.ev
           w == standardize_address(ev.account_address)
           S == Range(Get(ev.owners_added))
       IN /\ \A o \in S : Cardinality(OwnerWalletsAt(db, o, w)) = 1
          /\ pre.owners_wallets \subseteq db.owners_wallets
          /\ \A r \in db.owners_wallets \ pre.owners_wallets :
                /\ r.wallet_address = w
                /\ r.owner_address \in S
                /\ OwnerWalletsAt(pre, r.owner_address, w) = {}
                /\ r \in Range(last.op.rows)
          /\ [db EXCEPT !.owners_wallets = {}] = [pre EXCEPT !.owners_wallets = {}]

\* C31 witness: an AddOwnersEvent has met the row of its owner and wallet,
\* stamped at an earlier clock reading, and has left it alone, with the
\* owner a member of another wallet as well
AddOwnersAppliedSeen ==
    /\ LastEvent(AddOwnersEvent)
    /\ db.owners_wallets = pre.owners_wallets
    /\ \E r \in pre.owners_wallets :
        /\ OwnerWalletKey(r, last.op.rows[1])
        /\ r.created_at # last.op.rows[1].created_at
        /\ \E s \in pre.owners_wallets :
              s.owner_address = r.owner_address /\ s.wallet_address # r.wallet_address

\* ------------------------------------------------------------- the summary
\* C32: when process_transactions returns its summary the batch held a
\* transaction, start_version and end_version are the values passed in and
\* last_transaction_timestamp is the timestamp of the last transaction of the
\* batch (the transactions of a batch have consecutive versions from
\* start_version on), entered or skipped; without that return there is no
\* summary
SummaryOfBatch ==
    \A p \in Procs :
       /\ pc[p] = "ok"
          => /\ ntx[p] > 0
             /\ processing_result[p].start_version = StartVersion(p)
             /\ processing_result[p].end_version = EndVersion(p)
             /\ processing_result[p].last_transaction_timestamp
                  = StartVersion(p) + ntx[p] - 1
       /\ (pc[p] # "ok" /\ run[p] = 1) => processing_result[p] = NoResult

\* C32 witness: the summary of a batch of one transaction, skipped for its
\* missing txn_data, in a range of two versions
SummaryOfBatchSeen ==
    /\ pc[1] = "ok"
    /\ ntx[1] = 1
    /\ txn[1].kind = "nodata"
    /\ processing_result[1].last_transaction_timestamp = StartVersion(1)
    /\ processing_result[1].end_version > StartVersion(1)

\* ------------------------------------------------------- processor_status
\* C33: no statement of update_last_processed_version lowers the stored
\* last_success_version of the processor: the table has one row per
\* processor; a statement with a version below the stored one leaves the
\* table as it was, a statement with a version not below it (or the first
\* one) leaves the row of the call, with its version and its timestamp
LastSuccessVersionNeverDecreases ==
    /\ \A r1, r2 \in processor_status : r1.processor = r2.processor => r1 = r2
    /\ \A r \in status_pre : \E r2 \in processor_status :
          /\ r2.processor = r.processor
          /\ r2.last_success_version >= r.last_success_version
    /\ status_last # NoStatus
       => IF \E r \in status_pre :
                /\ r.processor = status_last.processor
                /\ r.last_success_version > status_last.last_success_version
          THEN processor_status = status_pre
          ELSE processor_status = {status_last}

\* C33 witness: of two calls in flight the one with the higher version wrote
\* first, and the statement of the other has left the row alone
LastSuccessVersionNeverDecreasesSeen ==
    /\ status_last # NoStatus
    /\ processor_status = status_pre
    /\ \E r \in processor_status :
          /\ r.last_success_version > status_last.last_success_version
          /\ r.last_transaction_timestamp # status_last.last_transaction_timestamp
    /\ updates = 2
    /\ \A c \in Callers : status_pc[c] = "idle"

\* ------------------------------------------------- status and its columns
\* C34: in every state of the store that a batch the chain can emit leads
\* to, processed once or again, a Transaction row with status Pending has
\* neither executor nor executed_at, and a row with status Success, Failed or
\* Rejected has its executed_at
StatusMatchesExecution ==
    ValidChain(log[1])
    => \A r \in db.transactions :
          /\ r.status = Pending => r.executor = None /\ r.executed_at = None
          /\ r.status \in Terminal => IsSome(r.executed_at)

\* ------------------------------------------- terminal events without a row
\* the statement sent last is the update of a terminal event and the
\* transactions table had no row of its wallet_address and sequence_number
TerminalEventWithoutRow ==
    /\ last.entry.e = "event"
    /\ last.entry.ev.type_str \in TerminalEventTypes
    /\ ~last.refused
    /\ TransactionsAt(pre, KeyOf(last.entry.ev)[1], KeyOf(last.entry.ev)[2]) = {}

\* the statement sent last is the insert of a CreateTransactionEvent for a
\* key without row, after the update of a terminal event of that key
CreateAfterTerminalEvent ==
    /\ LastEvent(CreateTransactionEvent)
    /\ last.op.op = "insert_transactions"
    /\ ~last.refused
    /\ KeyOf(last.entry.ev) \in unmatched
    /\ TransactionsAt(pre, KeyOf(last.entry.ev)[1], KeyOf(last.entry.ev)[2]) = {}

\* C35: the update of a Succeeded, Failed or Rejected event that finds no
\* Transaction row of its (wallet_address, sequence_number) changes no table
\* and its handler returns without error; the CreateTransactionEvent of that
\* key processed afterwards stores one row with status Pending and without
\* executor, executed_at and error
TerminalEventWithoutRowIsLost ==
    /\ TerminalEventWithoutRow
       => /\ db = pre
          /\ (took.p = last.p /\ took.entry = last.entry)
             => pc[last.p] \in {"run", "ok"}
    /\ CreateAfterTerminalEvent
       => \E r \in db.transactions :
             /\ TransactionsAt(db, KeyOf(last.entry.ev)[1], KeyOf(last.entry.ev)[2]) = {r}
             /\ r.status = Pending
             /\ r.executor = None /\ r.executed_at = None /\ r.error = None

\* C35 witness: the update of a terminal event met no row, and the
\* CreateTransactionEvent after it has stored the row of its key, Pending
TerminalEventWithoutRowIsLostSeen ==
    /\ CreateAfterTerminalEvent
    /\ \E r \in db.transactions :
          /\ <<r.wallet_address, r.sequence_number>> = KeyOf(last.entry.ev)
          /\ r.status = Pending
    /\ \A r \in db.transactions : r.error = None /\ r.executed_at = None

\* ---------------------------------------------------------- one vote each
\* C36: the votes table holds at most one row per wallet, sequence number
\* and on-chain voter, whatever the textual form of the address in the
\* events: two rows whose addresses are the same in canonical form are one
\* row
OneVotePerVoter ==
    \A r1, r2 \in db.votes :
       (/\ standardize_address(r1.wallet_address) = standardize_address(r2.wallet_address)
        /\ r1.transaction_sequence = r2.transaction_sequence
        /\ standardize_address(r1.voter_address) = standardize_address(r2.voter_address))
       => r1 = r2

\* -------------------------------------------------- members are owners
\* on the chain add_owners writes the MultisigAccount resource of the wallet
\* with its new owner list and emits AddOwnersEvent, in one transaction: an
\* AddOwnersEvent of batch l comes after a MultisigAccount write of its
\* wallet, in its transaction, that lists the owners added
MembershipsWritten(l) ==
    \A j \in 1..Len(l) :
       (/\ l[j].x.e = "event"
        /\ l[j].x.ev.type_str = AddOwnersEvent
        /\ l[j].x.ev.json_ok
        /\ IsSome(l[j].x.ev.owners_added))
       => \E i \in 1..(j - 1) :
             /\ l[i].x.e = "change"
             /\ l[i].x.wr.type_str = MultisigAccountType
             /\ standardize_address(l[i].x.wr.address)
                  = standardize_address(l[j].x.ev.account_address)
             /\ Range(Get(l[j].x.ev.owners_added)) \subseteq Range(l[i].x.wr.data.owners)
             /\ \A k \in i..j : l[k].x.e # "txn"

SameTransaction(l, i, j) == \A k \in i..j : l[k].x.e # "txn"

\* the owners that RemoveOwnersEvents between entries i and j of batch l
\* name for the wallet_address w
RemovedBetween(l, i, j, w) ==
    UNION {Range(Get(l[k].x.ev.owners_removed)) :
             k \in {m \in i..j : /\ l[m].x.e = "event"
                                 /\ l[m].x.ev.type_str = RemoveOwnersEvent
                                 /\ IsSome(l[m].x.ev.owners_removed)
                                 /\ standardize_address(l[m].x.ev.account_address) = w}}

\* the statement sent last is that of the AddOwnersEvent or RemoveOwnersEvent
\* the loop is at
OwnersEventApplied ==
    /\ last.entry.e = "event"
    /\ last.entry.ev.type_str \in {AddOwnersEvent, RemoveOwnersEvent}
    /\ ~last.refused
    /\ run[1] = 1
    /\ pos[1] > 0
    /\ log[1][pos[1]].x = last.entry
    /\ last.version = txn[1].version

\* C38: the loops reach no resource write of a transaction after one of its
\* events, and when the statement of an AddOwnersEvent or RemoveOwnersEvent
\* is sent, every MultisigAccount write of its transaction is in the tables
\* the statement meets: the Wallet row, the Owner rows and the memberships
\* of the write, less those a RemoveOwnersEvent in between has named
ChangesBeforeEvents ==
    /\ \A i, j \in 1..Len(log[1]) :
          (i < j /\ SameTransaction(log[1], i, j) /\ log[1][i].x.e = "event")
          => log[1][j].x.e # "change"
    /\ OwnersEventApplied
       => \A i \in 1..(pos[1] - 1) :
             (/\ SameTransaction(log[1], i, pos[1])
              /\ log[1][i].x.e = "change"
              /\ log[1][i].x.wr.type_str = MultisigAccountType)
             => LET wr == log[1][i].x.wr IN
                /\ \E r \in pre.wallets : r.wallet_address = wr.address
                /\ \A o \in Range(wr.data.owners) :
                      /\ \E r \in pre.owners : r.owner_address = o
                      /\ o \notin RemovedBetween(log[1], i, pos[1] - 1, wr.address)
                         => o \in OwnersOfWallet(pre, wr.address)

\* C38 witness: a RemoveOwnersEvent has deleted a membership that the
\* MultisigAccount write of its own transaction had stored
ChangesBeforeEventsSeen ==
    /\ OwnersEventApplied
    /\ LastEvent(RemoveOwnersEvent)
    /\ pos[1] = 3
    /\ log[1][2].x.e = "change"
    /\ pre.owners_wallets # db.owners_wallets
    /\ \E r \in pre.owners_wallets \ db.owners_wallets :
          /\ r.wallet_address = log[1][2].x.wr.address
          /\ r.owner_address \in Range(log[1][2].x.wr.data.owners)

\* ------------------------------------------------- the payload of a row
\* C39: the statement of a TransactionExecutionSucceededEvent that carries
\* no transaction_payload, or one that does not decode (its bytes do not
\* parse, the ABI fetch or the decoding of the arguments fails), leaves the
\* payload of every Transaction row as it was
UndecodedPayloadKeepsStored ==
    (/\ LastEvent(TransactionExecutionSucceededEvent)
     /\ ~last.refused
     /\ ~(/\ IsSome(last.entry.ev.transaction_payload)
          /\ parse_payload(Get(last.entry.ev.transaction_payload)).ok
          /\ process_entry_function(Get(last.entry.ev.transaction_payload)).ok))
    => \A r \in pre.transactions : \E r2 \in db.transactions :
          TransactionKey(r, r2) /\ r2.payload = r.payload

\* ------------------------------------------------- the error of a handler
\* a handler has returned an error, or has panicked
Stopped(p) == pc[p] \in {"err", "panic"}

\* the refused statement is the vote insert of a CreateTransactionEvent
VoteWriteRefused ==
    /\ LastEvent(CreateTransactionEvent)
    /\ last.refused
    /\ last.op.op = "insert_votes"

\* where process_transactions stands once a handler has returned an error:
\* no statement is outstanding, no summary is returned, a refused statement
\* has changed nothing and the Transaction row written before a refused vote
\* insert is in the store
StoppedAtError ==
    /\ \A p \in Procs :
          Stopped(p) => /\ pending[p] = <<>>
                        /\ handling[p] = NoEntry
                        /\ processing_result[p] = NoResult
    /\ (last.refused /\ Surfaces(last.op))
       => /\ pc[last.p] = "err"
          /\ db = pre
    /\ VoteWriteRefused
       => /\ db.votes = pre.votes
          /\ \E r \in db.transactions :
                /\ r.wallet_address = last.op.rows[1].wallet_address
                /\ r.sequence_number = last.op.rows[1].transaction_sequence
                /\ r.created_at = last.version

\* C40: once a handler has returned an error process_transactions takes no
\* further step: the tables, the place in the batch and the outcome stay as
\* they are, what was written before the error (the Transaction row when the
\* vote insert of a CreateTransactionEvent is refused) stays in the store, and
\* no summary is returned
HandlerErrorStopsBatch ==
    /\ []StoppedAtError
    /\ [][\A p \in Procs :
             Stopped(p) => /\ db' = db
                           /\ pc'[p] = pc[p]
                           /\ pos'[p] = pos[p]
                           /\ ntx'[p] = ntx[p]
                           /\ txn'[p] = txn[p]
                           /\ processing_result'[p] = processing_result[p]]_vars

\* C40 witness: the vote insert of a CreateTransactionEvent was refused when
\* the batch could still hold entries; the Transaction row of the event is
\* stored, its vote is not, and process_transactions has returned the error
HandlerErrorStopsBatchSeen ==
    /\ VoteWriteRefused
    /\ Stopped(last.p)
    /\ left > 0
    /\ db.votes = {}
    /\ \E r \in db.transactions :
          /\ r.wallet_address = last.op.rows[1].wallet_address
          /\ r.sequence_number = last.op.rows[1].transaction_sequence
    /\ processing_result[last.p] = NoResult
====
